---------------------------- MODULE Spec2Model ----------------------------
(***************************************************************************)
(* A model of the ISCC reference implementation (src/iscc/iscc.py and the  *)
(* helpers of src/iscc/utils.py and src/iscc/metrics.py): the base58       *)
(* codec, the gear chunker, the similarity and minimum hashes and their    *)
(* fold, the sliding window, the text normalizer, the distance helpers,    *)
(* the Streamable context manager, the Merkle build of instance_id and     *)
(* the trimming of meta_id.  Python integers are unbounded, so every       *)
(* integer that can exceed 31 bits is a sequence of base-256 digits, least *)
(* significant digit first, with the arithmetic carried out digit by       *)
(* digit.                                                                  *)
(***************************************************************************)
EXTENDS Integers, Sequences, FiniteSets, TLC

VARIABLES
    cdPc,       \* codec harness: "in", "mid", "out"
    cdMode,     \* "digest": encode then decode; "code": decode then encode
    cdIn,       \* the input (a digest or a code string)
    cdMid,      \* result of the first call
    cdOut,      \* result of the second call
    smData,     \* stream: descriptor of the bytes behind the stream
    smLimit,    \* stream: most bytes one read() returns (0: as many as asked)
    smPos,      \* stream: bytes read so far
    smAlt,      \* limit of the second provider over the same bytes
    smRun,      \* 1: first provider, 2: second provider
    smRef,      \* what the first provider's run produced
    ckPc,       \* data_chunks: "idle", "start", "loop", "done"
    ckSection,  \* data_chunks: section
    ckCounter,  \* data_chunks: counter
    ckChunks,   \* data_chunks: the chunks yielded so far
    iiPc,       \* instance_id: "idle", "loop", "done"
    iiLeaves,   \* instance_id: the slices read so far, one per leaf
    mhPc,       \* minimum_hash: "idle", "start", "loop", "done"
    mhFeatures, \* minimum_hash: features
    mhPos,      \* minimum_hash: features consumed so far
    mhValues,   \* minimum_hash: hashvalues
    shPc,       \* similarity_hash: "idle", "start", "loop", "done" or an error
    shDigests,  \* similarity_hash: hash_digests
    shPos,      \* similarity_hash: digests consumed so far
    shBytes,    \* similarity_hash: n_bytes
    shVector,   \* similarity_hash: vector
    shOut,      \* similarity_hash: the bytes returned
    mhRun,      \* minimum_hash: 1: the features as given, 2: permuted
    mhRef,      \* minimum_hash: the first run's result
    shRun,      \* similarity_hash: 1: the digests as given, 2: permuted
    shRef,      \* similarity_hash: the first run's result
    swPc,       \* sliding_window: "idle", "call", "gen", "done" or an error
    swSeq,      \* sliding_window: text / seq
    swWidth,    \* sliding_window: width
    swList,     \* the list iscc.sliding_window returned
    swIdx,      \* utils.sliding_window: slices the generator has yielded
    swSlices,   \* utils.sliding_window: the slices yielded so far
    txPc,       \* text: "idle", "trim", "trimmed", "normalize", ... or an error
    txIn,       \* text: the argument
    txText,     \* trim: text
    txOut,      \* text: what the call returned
    txAgain,    \* normalize_text: what it returned on its own result
    diPc,       \* distance: "idle", "call", "done"
    diFn,       \* distance: "iscc" (iscc.py) or "metrics" (metrics.py)
    diA,        \* distance: a
    diB,        \* distance: b
    diMixed,    \* distance: mixed
    diOut,      \* distance: what the call returned
    stPc,       \* Streamable: "idle", "new", "made", "with", "exit", "left", "raised"
    stKind,     \* Streamable: data is a "path", "bytes" or a "stream"
    stClose,    \* Streamable: do_close
    stExists,   \* Streamable: a file is at the path
    stSize,     \* Streamable: bytes behind the stream
    stPos,      \* Streamable: bytes the with-block has read
    stOrigin,   \* Streamable: who made self.stream: "open", "BytesIO", "caller"
    stOpen,     \* Streamable: self.stream is open
    stExc,      \* Streamable: the exception that leaves the block, or "none"
    thPc,       \* instance_id: "idle", "read", "top", "root", "returned" or an error
    thSize,     \* instance_id: bytes of data
    thPos,      \* instance_id: bytes read so far
    thHashes,   \* leaf_node_digests, then the hashes of the running top_hash call
    thDepth,    \* top_hash: calls on the stack
    thLevels,   \* top_hash: len(hashes) of every call so far
    thOut,      \* instance_id: what the call returned
    miPc,       \* meta_id: "idle", "nfkc", "title", "extra", "rest", "returned" or an error
    miTitleIn,  \* meta_id: the argument title
    miExtraIn,  \* meta_id: the argument extra
    miTitle,    \* meta_id: title
    miExtra,    \* meta_id: extra
    miOut       \* meta_id: what the call returned

codecVars == <<cdPc, cdMode, cdIn, cdMid, cdOut>>

streamVars == <<smData, smLimit, smPos, smAlt, smRun, smRef>>

chunkVars == <<ckPc, ckSection, ckCounter, ckChunks>>

leafVars == <<iiPc, iiLeaves>>

minVars == <<mhPc, mhFeatures, mhPos, mhValues, mhRun, mhRef>>

simVars == <<shPc, shDigests, shPos, shBytes, shVector, shOut, shRun, shRef>>

hashVars == <<minVars, simVars>>

windowVars == <<swPc, swSeq, swWidth, swList, swIdx, swSlices>>

textVars == <<txPc, txIn, txText, txOut, txAgain>>

distanceVars == <<diPc, diFn, diA, diB, diMixed, diOut>>

streamableVars == <<stPc, stKind, stClose, stExists, stSize, stPos, stOrigin, stOpen, stExc>>

merkleVars == <<thPc, thSize, thPos, thHashes, thDepth, thLevels, thOut>>

metaVars == <<miPc, miTitleIn, miExtraIn, miTitle, miExtra, miOut>>

vars == <<codecVars, streamVars, chunkVars, leafVars, hashVars, windowVars,
          textVars,
          distanceVars,
          streamableVars,
          merkleVars,
          metaVars>>

\* what each group of functions leaves alone
othersOfCodec ==
    <<streamVars, chunkVars, leafVars, hashVars, windowVars, textVars,
          distanceVars,
          streamableVars,
          merkleVars,
          metaVars>>

othersOfStream == <<codecVars, hashVars, windowVars, textVars,
          distanceVars,
          streamableVars,
          merkleVars,
          metaVars>>

othersOfHash ==
    <<codecVars, streamVars, chunkVars, leafVars, windowVars, textVars,
          distanceVars,
          streamableVars,
          merkleVars,
          metaVars>>

othersOfWindow ==
    <<codecVars, streamVars, chunkVars, leafVars, hashVars, textVars,
          distanceVars,
          streamableVars,
          merkleVars,
          metaVars>>

othersOfText ==
    <<codecVars, streamVars, chunkVars, leafVars, hashVars, windowVars,
          distanceVars,
          streamableVars,
          merkleVars,
          metaVars>>

othersOfDistance ==
    <<codecVars,
      streamVars,
      chunkVars,
      leafVars,
      hashVars,
      windowVars,
      textVars,
          streamableVars,
          merkleVars,
          metaVars>>

othersOfStreamable ==
    <<codecVars,
      streamVars,
      chunkVars,
      leafVars,
      hashVars,
      windowVars,
      textVars,
      distanceVars,
          merkleVars,
          metaVars>>

othersOfMerkle ==
    <<codecVars,
      streamVars,
      chunkVars,
      leafVars,
      hashVars,
      windowVars,
      textVars,
      distanceVars,
      streamableVars,
          metaVars>>

othersOfMeta ==
    <<codecVars,
      streamVars,
      chunkVars,
      leafVars,
      hashVars,
      windowVars,
      textVars,
      distanceVars,
      streamableVars,
      merkleVars>>

-----------------------------------------------------------------------------
(* Sequence helpers (Python slicing and reversed()).                        *)

Reverse(s) == [i \in 1..Len(s) |-> s[Len(s) + 1 - i]]

\* s[:n]
Take(s, n) == SubSeq(s, 1, IF n < Len(s) THEN n ELSE Len(s))

\* s[n:]
Drop(s, n) == SubSeq(s, (IF n < Len(s) THEN n ELSE Len(s)) + 1, Len(s))

Min2(a, b) == IF a < b THEN a ELSE b

Max2(a, b) == IF a > b THEN a ELSE b

-----------------------------------------------------------------------------
(* Unbounded naturals: base-256 digits, least significant first.            *)

BnZero == <<>>

BnOne == <<1>>

BnIsZero(a) == \A i \in 1..Len(a) : a[i] = 0

BnDigit(a, i) == IF i <= Len(a) THEN a[i] ELSE 0

RECURSIVE BnAddFrom(_, _, _, _, _)
BnAddFrom(a, b, i, carry, acc) ==
    IF i > Max2(Len(a), Len(b))
    THEN IF carry = 0 THEN acc ELSE Append(acc, carry)
    ELSE LET s == BnDigit(a, i) + BnDigit(b, i) + carry
         IN  BnAddFrom(a, b, i + 1, s \div 256, Append(acc, s % 256))

\* a + b
BnAdd(a, b) == BnAddFrom(a, b, 1, 0, <<>>)

RECURSIVE BnCarryOut(_, _)
BnCarryOut(carry, acc) ==
    IF carry = 0 THEN acc ELSE BnCarryOut(carry \div 256, Append(acc, carry % 256))

RECURSIVE BnMulSmallFrom(_, _, _, _, _)
BnMulSmallFrom(a, m, i, carry, acc) ==
    IF i > Len(a)
    THEN BnCarryOut(carry, acc)
    ELSE LET p == a[i] * m + carry
         IN  BnMulSmallFrom(a, m, i + 1, p \div 256, Append(acc, p % 256))

\* a * m for a machine-size m (m < 2^21)
BnMulSmall(a, m) == BnMulSmallFrom(a, m, 1, 0, <<>>)

\* Long division by a machine-size d, most significant digit first; the
\* result is the pair <<quotient, remainder>>.
RECURSIVE BnDivModFrom(_, _, _, _, _)
BnDivModFrom(a, d, i, rem, acc) ==
    IF i = 0
    THEN <<acc, rem>>
    ELSE LET cur == rem * 256 + a[i]
         IN  BnDivModFrom(a, d, i - 1, cur % d, <<cur \div d>> \o acc)

\* a // d
BnDivSmall(a, d) == BnDivModFrom(a, d, Len(a), 0, <<>>)[1]

\* a % d
BnModSmall(a, d) == BnDivModFrom(a, d, Len(a), 0, <<>>)[2]

\* a > 1
BnGtOne(a) == (\E i \in 2..Len(a) : a[i] # 0) \/ (Len(a) >= 1 /\ a[1] > 1)

-----------------------------------------------------------------------------
(* The codec alphabet (const.SYMBOLS) as code points, and the two          *)
(* translation tables built from it.  str.translate leaves a character     *)
(* that is not a key of the table unchanged.                                *)

SYMBOLS ==
    <<67, 50, 51, 52, 53, 54, 55, 56, 57, 114, 66, 49, 90, 69, 70, 71, 84, 116,
      89, 105, 65, 97, 86, 118, 77, 109, 72, 85, 80, 87, 88, 75, 68, 78, 98, 99,
      100, 101, 102, 103, 104, 76, 106, 107, 83, 110, 111, 112, 82, 113, 115, 74,
      117, 81, 119, 120, 121, 122>>

\* value (chr(0)..chr(57)) -> symbol
V2CTABLE(c) == IF c \in 0..57 THEN SYMBOLS[c + 1] ELSE c

\* symbol -> value
C2VTABLE(c) ==
    IF \E i \in 1..58 : SYMBOLS[i] = c
    THEN (CHOOSE i \in 1..58 : SYMBOLS[i] = c) - 1
    ELSE c

-----------------------------------------------------------------------------
(* encode / decode (iscc.py).  A digest is a sequence of bytes, a code a   *)
(* sequence of code points; a failed call returns the name of the error.   *)

\* A call returns [err |-> "none", val |-> result] or raises: [err |-> name].
Return(v) == [err |-> "none", val |-> v]

Raise(e) == [err |-> e, val |-> <<>>]

Raised(r) == r.err # "none"

\* a + b of two calls' results: the first error raised wins
Concat(a, b) ==
    IF Raised(a) THEN a ELSE IF Raised(b) THEN b ELSE Return(a.val \o b.val)

\* for octet in digest: octet *= numvalues; value += octet; numvalues *= 256
\* (digest is already reversed); the pair <<value, numvalues>>
RECURSIVE EncodeAccumulate(_, _, _, _)
EncodeAccumulate(rdigest, i, value, numvalues) ==
    IF i > Len(rdigest)
    THEN <<value, numvalues>>
    ELSE EncodeAccumulate(rdigest, i + 1,
                          BnAdd(value, BnMulSmall(numvalues, rdigest[i])),
                          BnMulSmall(numvalues, 256))

\* (mutant) numvalues is divided by 256, the radix of the input, not by 58
RECURSIVE EncodeEmit_Radix256(_, _, _)
EncodeEmit_Radix256(value, numvalues, chars) ==
    IF BnIsZero(numvalues)
    THEN chars
    ELSE EncodeEmit_Radix256(BnDivSmall(value, 58), BnDivSmall(numvalues, 256),
                             Append(chars, BnModSmall(value, 58)))

\* while numvalues > 0: chars.append(value % 58); value //= 58; numvalues //= 58
RECURSIVE EncodeEmit(_, _, _)
EncodeEmit(value, numvalues, chars) ==
    IF BnIsZero(numvalues)
    THEN chars
    ELSE EncodeEmit(BnDivSmall(value, 58), BnDivSmall(numvalues, 58),
                    Append(chars, BnModSmall(value, 58)))

EncodePart(digest) ==
    IF Len(digest) \notin {1, 8}
    THEN Raise("AssertionError")
    ELSE LET acc   == EncodeAccumulate(Reverse(digest), 1, BnZero, BnOne)
             chars == EncodeEmit(acc[1], acc[2], <<>>)
             rev   == Reverse(chars)
         IN  Return([i \in 1..Len(rev) |-> V2CTABLE(rev[i])])

encode(digest) ==
    IF Len(digest) = 9
    THEN Concat(EncodePart(Take(digest, 1)), EncodePart(Drop(digest, 1)))
    ELSE EncodePart(digest)

\* for c in code: c = ord(c); c *= numvalues; value += c; numvalues *= 58
\* (code is already translated and reversed)
RECURSIVE DecodeAccumulate(_, _, _, _)
DecodeAccumulate(rcode, i, value, numvalues) ==
    IF i > Len(rcode)
    THEN value
    ELSE DecodeAccumulate(rcode, i + 1,
                          BnAdd(value, BnMulSmall(numvalues, rcode[i])),
                          BnMulSmall(numvalues, 58))

\* (mutant) the loop runs while numvalues > 0, as encode's loop does
RECURSIVE DecodeEmit_WhilePositive(_, _, _)
DecodeEmit_WhilePositive(value, numvalues, data) ==
    IF BnIsZero(numvalues)
    THEN data
    ELSE DecodeEmit_WhilePositive(BnDivSmall(value, 256), BnDivSmall(numvalues, 256),
                                  Append(data, BnModSmall(value, 256)))

\* while numvalues > 1: data.append(value % 256); value //= 256; numvalues //= 256
RECURSIVE DecodeEmit(_, _, _)
DecodeEmit(value, numvalues, data) ==
    IF ~BnGtOne(numvalues)
    THEN data
    ELSE DecodeEmit(BnDivSmall(value, 256), BnDivSmall(numvalues, 256),
                    Append(data, BnModSmall(value, 256)))

\* 2 ** bit_length, bit_length a multiple of 8
BnPow2(bit_length) == [i \in 1..(bit_length \div 8) + 1 |->
                          IF i = (bit_length \div 8) + 1 THEN 1 ELSE 0]

DecodePart(code) ==
    IF Len(code) \notin {2, 11}
    THEN Raise("ValueError")
    ELSE LET bit_length == IF Len(code) = 2 THEN 8 ELSE 64
             translated == [i \in 1..Len(code) |-> C2VTABLE(code[i])]
             value      == DecodeAccumulate(Reverse(translated), 1, BnZero, BnOne)
             data       == DecodeEmit(value, BnPow2(bit_length), <<>>)
         IN  Return(Reverse(data))

decode(code) ==
    IF Len(code) = 13
    THEN Concat(DecodePart(Take(code, 2)), DecodePart(Drop(code, 2)))
    ELSE DecodePart(code)

-----------------------------------------------------------------------------
(* Codec harness: a digest is encoded and the code decoded again, or a     *)
(* code is decoded and the digest encoded again.                            *)

\* An 8-byte digest's first DigestVary positions are drawn from SampleBytes
\* and the others share one fill byte; likewise an 11-character code's first
\* CodeVary positions, drawn from SampleSymbols.
DigestVary == 4

CodeVary == 5

SampleBytes == {0, 58, 255}

FillBytes == {0, 255}

\* "C" (value 0), "K" (value 31), "z" (value 57)
SampleSymbols == {67, 75, 122}

FillSymbols == {67, 122}

Headers == {0, 16, 255}

HeaderCodes == {<<67, 67>>, <<52, 72>>, <<122, 122>>}

Digests8 ==
    {[i \in 1..8 |-> IF i <= Min2(DigestVary, 8) THEN v[i] ELSE f] :
        v \in [1..Min2(DigestVary, 8) -> SampleBytes], f \in FillBytes}

Codes11 ==
    {[i \in 1..11 |-> IF i <= Min2(CodeVary, 11) THEN v[i] ELSE f] :
        v \in [1..Min2(CodeVary, 11) -> SampleSymbols], f \in FillSymbols}

Records9 ==
    {<<h>> \o [i \in 1..8 |-> IF i = 1 THEN a ELSE IF i = 8 THEN b ELSE f] :
        h \in Headers, a \in SampleBytes, b \in SampleBytes, f \in FillBytes}

DigestInputs == [1..1 -> 0..255] \cup Digests8 \cup Records9

\* "0", "I", "O", "l" (the look-alikes the alphabet leaves out), " ", "\u00E9"
IllegalSymbols == {48, 73, 79, 108, 32, 233}

\* Codes of a length decode does not take, and codes of a legal length with
\* one character from outside the alphabet.
IllegalLengthCodes ==
    {[i \in 1..n |-> f] : n \in {0, 1, 3, 10, 12, 14}, f \in SampleSymbols}

IllegalSymbolCodes ==
    {[i \in 1..n |-> IF i = p THEN x ELSE f] :
        n \in {2, 11, 13}, p \in {1, 2, 3, 11, 13}, x \in IllegalSymbols,
        f \in SampleSymbols}

CodeInputs ==
    [1..2 -> {SYMBOLS[i] : i \in 1..58}] \cup Codes11
        \cup {h \o [i \in 1..11 |-> f] : h \in HeaderCodes, f \in SampleSymbols}
        \cup IllegalLengthCodes \cup IllegalSymbolCodes

CodecInit ==
    /\ cdPc = "in"
    /\ \/ cdMode = "digest" /\ cdIn \in DigestInputs
       \/ cdMode = "code" /\ cdIn \in CodeInputs
    /\ cdMid = Return(<<>>)
    /\ cdOut = Return(<<>>)

EncodeDigest ==
    /\ cdPc = "in" /\ cdMode = "digest"
    /\ cdMid' = encode(cdIn)
    /\ cdPc' = "mid"
    /\ UNCHANGED <<cdMode, cdIn, cdOut, othersOfCodec>>

DecodeBack ==
    /\ cdPc = "mid" /\ cdMode = "digest" /\ ~Raised(cdMid)
    /\ cdOut' = decode(cdMid.val)
    /\ cdPc' = "out"
    /\ UNCHANGED <<cdMode, cdIn, cdMid, othersOfCodec>>

DecodeCode ==
    /\ cdPc = "in" /\ cdMode = "code"
    /\ cdMid' = decode(cdIn)
    /\ cdPc' = "mid"
    /\ UNCHANGED <<cdMode, cdIn, cdOut, othersOfCodec>>

EncodeBack ==
    /\ cdPc = "mid" /\ cdMode = "code" /\ ~Raised(cdMid)
    /\ cdOut' = encode(cdMid.val)
    /\ cdPc' = "out"
    /\ UNCHANGED <<cdMode, cdIn, cdMid, othersOfCodec>>

CodecNext == EncodeDigest \/ DecodeBack \/ DecodeCode \/ EncodeBack

CodecIdle ==
    /\ cdPc = "idle" /\ cdMode = "idle" /\ cdIn = <<>>
    /\ cdMid = Return(<<>>) /\ cdOut = Return(<<>>)

-----------------------------------------------------------------------------
(* The byte stream behind data_chunks and instance_id.  The bytes are a    *)
(* function of the position: `head` zero bytes, then `n` bytes that are    *)
(* all `seed` (kind "const") or vary with the position (kind "mixed").     *)

MixedByte(seed, p) ==
    (p * 37 + (p \div 3) * 11 + seed * 101 + (p % 251) * (p % 241)) % 256

\* the byte at position p (from 0)
ByteAt(d, p) ==
    IF p < d.head THEN 0
    ELSE IF d.kind = "const" THEN d.seed
    ELSE MixedByte(d.seed, p - d.head)

StreamLen(d) == d.head + d.n

InputBytes(d) == [i \in 1..StreamLen(d) |-> ByteAt(d, i - 1)]

\* The number of bytes read(n) returns: at most n, at most what is left,
\* and at most the provider's limit; none only at the end of the stream.
ReadLen(n) ==
    Min2(IF smLimit = 0 THEN n ELSE Min2(n, smLimit), StreamLen(smData) - smPos)

\* data.read(n)
Read(n) == [i \in 1..ReadLen(n) |-> ByteAt(smData, smPos + i - 1)]

-----------------------------------------------------------------------------
(* chunk_length (iscc.py).  `pattern` only ever meets a mask below 2^64    *)
(* and a shift or an addition never moves a bit downwards, so the bits     *)
(* from 2^64 up are dropped: a pattern is three limbs of 22, 22 and 20     *)
(* bits, the least significant first.  A mask is the set of its bits.      *)

Limb22 == 4194304

Limb20 == 1048576

\* const.CHUNKING_GEAR: 256 entries of 64 bits
CHUNKING_GEAR ==
    [b \in 0..255 |-> <<(b * 16411 + b * b * 53) % Limb22,
                        (b * 15973 + b * b * 33 + b) % Limb22,
                        (b * 7901 + b * b * 9) % Limb20>>]

\* 0x016118
MASK_SMALL_1 == {3, 4, 8, 13, 14, 16}

\* 0x00a0b1
MASK_SMALL_2 == {0, 4, 5, 7, 13, 15}

\* 0x0003590703530000
MASK_LARGE_1 == {16, 17, 20, 22, 24, 25, 32, 33, 34, 40, 43, 44, 46, 48, 49}

\* 0x0000d90003530000
MASK_LARGE_2 == {16, 17, 20, 22, 24, 25, 40, 43, 44, 46, 47}

PatternZero == <<0, 0, 0>>

\* (pattern << 1) + gear
GearShift(pattern, gear) ==
    LET t0 == 2 * pattern[1] + gear[1]
        t1 == 2 * pattern[2] + gear[2] + t0 \div Limb22
        t2 == 2 * pattern[3] + gear[3] + t1 \div Limb22
    IN  <<t0 % Limb22, t1 % Limb22, t2 % Limb20>>

PatternBit(pattern, k) == (pattern[(k \div 22) + 1] \div (2 ^ (k % 22))) % 2

\* not pattern & mask
AndIsZero(pattern, mask) == \A k \in mask : PatternBit(pattern, k) = 0

\* while i < hi: pattern = (pattern << 1) + GEAR[data[i]];
\*               if not pattern & mask: return i;  i = i + 1
\* The result tells whether the loop returned (hit), and gives i and pattern.
RECURSIVE ScanRun(_, _, _, _, _)
ScanRun(data, i, hi, pattern, mask) ==
    IF i >= hi
    THEN [hit |-> FALSE, i |-> i, pattern |-> pattern]
    ELSE LET p == GearShift(pattern, CHUNKING_GEAR[data[i + 1]])
         IN  IF AndIsZero(p, mask)
             THEN [hit |-> TRUE, i |-> i, pattern |-> p]
             ELSE ScanRun(data, i + 1, hi, p, mask)

\* The same loop over a long range, run over the lower half of the range and
\* then, if it did not return there, over the upper half.
RECURSIVE Scan(_, _, _, _, _)
Scan(data, lo, hi, pattern, mask) ==
    IF hi - lo <= 16
    THEN ScanRun(data, lo, hi, pattern, mask)
    ELSE LET mid  == lo + (hi - lo) \div 2
             left == Scan(data, lo, mid, pattern, mask)
         IN  IF left.hit THEN left ELSE Scan(data, mid, hi, left.pattern, mask)

chunk_length(data, norm_size, min_size, max_size, mask_1, mask_2) ==
    LET data_length == Len(data)
    IN  IF data_length <= min_size
        THEN data_length
        ELSE LET first == Scan(data, min_size, Min2(norm_size, data_length),
                               PatternZero, mask_1)
             IN  IF first.hit
                 THEN first.i
                 ELSE Scan(data, first.i, Min2(max_size, data_length),
                           first.pattern, mask_2).i

-----------------------------------------------------------------------------
(* data_chunks (iscc.py), a generator: one action per resumption.           *)

\* section = data.read(640); counter = 0
ChunksStart ==
    /\ ckPc = "start"
    /\ ckSection' = Read(640)
    /\ smPos' = smPos + ReadLen(640)
    /\ ckCounter' = 0
    /\ ckPc' = "loop"
    /\ UNCHANGED <<ckChunks, smData, smLimit, smAlt, smRun, smRef>>
    /\ UNCHANGED <<leafVars, othersOfStream>>

\* (mutant) section = data.read(size): the rest of the section is dropped
Refill_Overwrite(size) == IF Len(ckSection) < size THEN Read(size) ELSE ckSection

\* if len(section) < size: section += data.read(size)
Refill(size) == IF Len(ckSection) < size THEN ckSection \o Read(size) ELSE ckSection

RefillLen(size) == IF Len(ckSection) < size THEN ReadLen(size) ELSE 0

\* One turn of the loop: break on an empty section, else yield
\* section[:boundary] and keep section[boundary:].
ChunksTurn(size, norm_size, min_size, max_size, mask_1, mask_2) ==
    LET section == Refill(size)
    IN  /\ smPos' = smPos + RefillLen(size)
        /\ IF Len(section) = 0
           THEN /\ ckPc' = "done"
                /\ ckSection' = section
                /\ UNCHANGED <<ckCounter, ckChunks>>
           ELSE LET boundary == chunk_length(section, norm_size, min_size,
                                             max_size, mask_1, mask_2)
                IN  /\ ckChunks' = Append(ckChunks, Take(section, boundary))
                    /\ ckSection' = Drop(section, boundary)
                    /\ ckCounter' = ckCounter + 1
                    /\ ckPc' = "loop"
        /\ UNCHANGED <<smData, smLimit, smAlt, smRun, smRef>>
        /\ UNCHANGED <<leafVars, othersOfStream>>

\* counter < 100
ChunksSmall ==
    /\ ckPc = "loop" /\ ckCounter < 100
    /\ ChunksTurn(640, 40, 20, 640, MASK_SMALL_1, MASK_SMALL_2)

\* counter >= 100
ChunksLarge ==
    /\ ckPc = "loop" /\ ckCounter >= 100
    /\ ChunksTurn(65536, 4096, 2048, 65536, MASK_LARGE_1, MASK_LARGE_2)

ChunksIdle ==
    ckPc = "idle" /\ ckSection = <<>> /\ ckCounter = 0 /\ ckChunks = <<>>

ChunksReady ==
    ckPc = "start" /\ ckSection = <<>> /\ ckCounter = 0 /\ ckChunks = <<>>

StreamIdle ==
    /\ smData = [head |-> 0, kind |-> "const", seed |-> 0, n |-> 0]
    /\ smLimit = 0 /\ smPos = 0 /\ smAlt = 0 /\ smRun = 1 /\ smRef = <<>>

LeavesIdle == iiPc = "idle" /\ iiLeaves = <<>>

\* Inputs of the chunker: short streams of every length up to MaxShortLen
\* under every provider, and long streams under a provider that returns
\* what is asked.
MaxShortLen == 45

ReadLimits == {0, 7, 25}

ShortStreams ==
    {[head |-> 0, kind |-> "mixed", seed |-> s, n |-> n] :
        s \in {0, 1}, n \in 0..MaxShortLen}

LongStreams ==
    {[head |-> 0, kind |-> "mixed", seed |-> 0, n |-> 1500],
     [head |-> 0, kind |-> "const", seed |-> 1, n |-> 1400],
     [head |-> 2000, kind |-> "mixed", seed |-> 1, n |-> 9000],
     [head |-> 7000, kind |-> "mixed", seed |-> 0, n |-> 100],
     [head |-> 2000, kind |-> "const", seed |-> 1, n |-> 68000]}

ChunksInit ==
    /\ \/ smData \in ShortStreams /\ smLimit \in ReadLimits
       \/ smData \in LongStreams /\ smLimit = 0
    /\ smPos = 0 /\ smAlt = smLimit /\ smRun = 1 /\ smRef = <<>>
    /\ ChunksReady

ChunksNext == ChunksStart \/ ChunksSmall \/ ChunksLarge

-----------------------------------------------------------------------------
(* The leaf loop of instance_id (iscc.py): one action per turn.             *)

\* chunk = data.read(64000); if chunk: append the leaf, else: break
InstanceLeaf ==
    /\ iiPc = "loop"
    /\ LET chunk == Read(64000)
       IN  IF Len(chunk) > 0
           THEN iiLeaves' = Append(iiLeaves, chunk) /\ iiPc' = "loop"
           ELSE iiLeaves' = iiLeaves /\ iiPc' = "done"
    /\ smPos' = smPos + ReadLen(64000)
    /\ UNCHANGED <<smData, smLimit, smAlt, smRun, smRef>>
    /\ UNCHANGED <<chunkVars, othersOfStream>>

LeavesReady == iiPc = "loop" /\ iiLeaves = <<>>

-----------------------------------------------------------------------------
(* Two stream providers over the same bytes: the first returns what is     *)
(* asked, the second at most smAlt bytes a read.  The function runs on the *)
(* first, its output is kept in smRef, and it runs again on the second.    *)

RerunChunks ==
    /\ ckPc = "done" /\ smRun = 1
    /\ smRef' = ckChunks
    /\ smRun' = 2 /\ smLimit' = smAlt /\ smPos' = 0
    /\ ckPc' = "start" /\ ckSection' = <<>> /\ ckCounter' = 0 /\ ckChunks' = <<>>
    /\ UNCHANGED <<smData, smAlt, leafVars, othersOfStream>>

RerunLeaves ==
    /\ iiPc = "done" /\ smRun = 1
    /\ smRef' = iiLeaves
    /\ smRun' = 2 /\ smLimit' = smAlt /\ smPos' = 0
    /\ iiPc' = "loop" /\ iiLeaves' = <<>>
    /\ UNCHANGED <<smData, smAlt, chunkVars, othersOfStream>>

ProviderStreams ==
    {[head |-> 0, kind |-> "mixed", seed |-> 0, n |-> n] : n \in 0..MaxShortLen}
        \cup {[head |-> 0, kind |-> "mixed", seed |-> 1, n |-> 800]}

ProvidersInit ==
    /\ \/ smData \in ProviderStreams /\ smAlt \in ReadLimits \ {0}
       \/ smData = [head |-> 0, kind |-> "const", seed |-> 1, n |-> 64010]
            /\ smAlt = 40000
    /\ smLimit = 0 /\ smPos = 0 /\ smRun = 1 /\ smRef = <<>>
    /\ \/ ChunksReady /\ LeavesIdle
       \/ ChunksIdle /\ LeavesReady

ProvidersNext ==
    \/ ChunksStart \/ ChunksSmall \/ ChunksLarge
    \/ InstanceLeaf
    \/ RerunChunks
    \/ RerunLeaves

-----------------------------------------------------------------------------
(* minimum_hash.  Features, register slots and the permutation constants   *)
(* are digit sequences of fixed width (4 bytes for a feature and a slot, 8 *)
(* for a constant): 2^32 - 1 does not fit a machine integer here.          *)

\* x & m on two bytes, bit by bit
RECURSIVE ByteAnd(_, _)
ByteAnd(x, m) ==
    IF x = 0 \/ m = 0
    THEN 0
    ELSE (x % 2) * (m % 2) + 2 * ByteAnd(x \div 2, m \div 2)

\* a & mask, as wide as the mask
BnAnd(a, mask) == [i \in 1..Len(mask) |-> ByteAnd(BnDigit(a, i), mask[i])]

\* a < b, most significant digit first
RECURSIVE BnLessFrom(_, _, _)
BnLessFrom(a, b, i) ==
    IF i = 0
    THEN FALSE
    ELSE IF BnDigit(a, i) # BnDigit(b, i)
         THEN BnDigit(a, i) < BnDigit(b, i)
         ELSE BnLessFrom(a, b, i - 1)

BnLess(a, b) == BnLessFrom(a, b, Max2(Len(a), Len(b)))

\* a - b for a >= b, as wide as a
RECURSIVE BnSubFrom(_, _, _, _, _)
BnSubFrom(a, b, i, borrow, acc) ==
    IF i > Len(a)
    THEN acc
    ELSE LET d == a[i] - BnDigit(b, i) - borrow
         IN  IF d < 0
             THEN BnSubFrom(a, b, i + 1, 1, Append(acc, d + 256))
             ELSE BnSubFrom(a, b, i + 1, 0, Append(acc, d))

BnSub(a, b) == BnSubFrom(a, b, 1, 0, <<>>)

\* a % p for a < 2^64 and p = 2^61 - 1: the quotient is at most 8
RECURSIVE BnMod(_, _)
BnMod(a, p) == IF BnLess(a, p) THEN a ELSE BnMod(BnSub(a, p), p)

\* a * 65536
BnShift16(a) == <<0, 0>> \o a

\* a * hv for a 32-bit hv, by its two 16-bit halves
BnMulFeature(a, hv) ==
    BnAdd(BnMulSmall(a, hv[1] + 256 * hv[2]),
          BnShift16(BnMulSmall(a, hv[3] + 256 * hv[4])))

\* max_int64 = (1 << 64) - 1
max_int64 == <<255, 255, 255, 255, 255, 255, 255, 255>>

\* mersenne_prime = (1 << 61) - 1
mersenne_prime == <<255, 255, 255, 255, 255, 255, 255, 31>>

\* max_hash = (1 << 32) - 1
max_hash == <<255, 255, 255, 255>>

\* const.MINHASH_PERMUTATIONS: the pair (a, b) of 128 64-bit constants
MINHASH_PERMUTATIONS ==
    <<[x \in 1..128 |->
          [k \in 1..8 |-> (x * 167 + k * k * 59 + x * k * 113 + 71) % 256]],
      [x \in 1..128 |->
          [k \in 1..8 |-> (x * 29 + k * 211 + x * x * k * 7 + 5) % 256]]>>

\* nh = (((a[x] * hv + b[x]) & max_int64) % mersenne_prime) & max_hash
Permuted(x, hv) ==
    LET a == MINHASH_PERMUTATIONS[1][x]
        b == MINHASH_PERMUTATIONS[2][x]
    IN  BnAnd(BnMod(BnAnd(BnAdd(BnMulFeature(a, hv), b), max_int64),
                    mersenne_prime),
              max_hash)

\* (mutant) the slot takes the newest value
SlotMin_Latest(nh, old) == nh

\* min(nh, hashvalues[x])
SlotMin(nh, old) == IF BnLess(old, nh) THEN old ELSE nh

\* hashvalues = [max_hash] * 128
MinhashStart ==
    /\ mhPc = "start"
    /\ mhValues' = [x \in 1..128 |-> max_hash]
    /\ mhPos' = 0
    /\ mhPc' = "loop"
    /\ UNCHANGED <<mhFeatures, mhRun, mhRef, simVars, othersOfHash>>

\* for hv in features: one pass over the 128 slots
MinhashFeature ==
    /\ mhPc = "loop" /\ mhPos < Len(mhFeatures)
    /\ LET hv == mhFeatures[mhPos + 1]
       IN  mhValues' = [x \in 1..128 |-> SlotMin(Permuted(x, hv), mhValues[x])]
    /\ mhPos' = mhPos + 1
    /\ UNCHANGED <<mhPc, mhFeatures, mhRun, mhRef, simVars, othersOfHash>>

\* return hashvalues
MinhashReturn ==
    /\ mhPc = "loop" /\ mhPos = Len(mhFeatures)
    /\ mhPc' = "done"
    /\ UNCHANGED <<mhFeatures, mhPos, mhValues, mhRun, mhRef, simVars,
                   othersOfHash>>

-----------------------------------------------------------------------------
(* similarity_hash.  A digest is a sequence of bytes, most significant     *)
(* first (int.from_bytes(digest, 'big')); bit i counts from the least      *)
(* significant bit of the integer.                                         *)

Pow2(k) == IF k = 0 THEN 1 ELSE IF k = 1 THEN 2 ELSE IF k = 2 THEN 4
           ELSE IF k = 3 THEN 8 ELSE IF k = 4 THEN 16 ELSE IF k = 5 THEN 32
           ELSE IF k = 6 THEN 64 ELSE 128

\* (h >> i) & 1 for h = int.from_bytes(digest, 'big')
DigestBit(digest, i) ==
    (digest[Len(digest) - (i \div 8)] \div Pow2(i % 8)) % 2

\* (mutant) vector[i] = h & 1
VectorAdd_Assign(vector, digest) ==
    [i \in 1..Len(vector) |-> DigestBit(digest, i - 1)]

\* vector[i] += h & 1, for i in range(n_bits)
VectorAdd(vector, digest) ==
    [i \in 1..Len(vector) |-> vector[i] + DigestBit(digest, i - 1)]

\* (mutant) int(vector[i] > minfeatures)
VectorBit_Strict(vector, i, count) == IF 2 * vector[i + 1] > count THEN 1 ELSE 0

\* int(vector[i] >= minfeatures), minfeatures = len(hash_digests) * 1. / 2
VectorBit(vector, i, count) == IF 2 * vector[i + 1] >= count THEN 1 ELSE 0

\* byte j (most significant first) of shash.to_bytes(n_bytes, 'big')
ShashByte(vector, j, n_bytes, count) ==
    LET base == (n_bytes - j) * 8
    IN  VectorBit(vector, base, count)
        + 2 * VectorBit(vector, base + 1, count)
        + 4 * VectorBit(vector, base + 2, count)
        + 8 * VectorBit(vector, base + 3, count)
        + 16 * VectorBit(vector, base + 4, count)
        + 32 * VectorBit(vector, base + 5, count)
        + 64 * VectorBit(vector, base + 6, count)
        + 128 * VectorBit(vector, base + 7, count)

\* n_bytes = len(hash_digests[0]); vector = [0] * n_bits
SimhashStart ==
    /\ shPc = "start"
    /\ IF shDigests = <<>>
       THEN shPc' = "IndexError" /\ UNCHANGED <<shBytes, shVector>>
       ELSE /\ shBytes' = Len(shDigests[1])
            /\ shVector' = [i \in 1..(8 * Len(shDigests[1])) |-> 0]
            /\ shPc' = "loop"
    /\ shPos' = 0
    /\ UNCHANGED <<shDigests, shOut, shRun, shRef, minVars, othersOfHash>>

\* for digest in hash_digests: assert len(digest) == n_bytes, then the bits
SimhashDigest ==
    /\ shPc = "loop" /\ shPos < Len(shDigests)
    /\ LET digest == shDigests[shPos + 1]
       IN  IF Len(digest) # shBytes
           THEN shPc' = "AssertionError" /\ UNCHANGED <<shVector, shPos>>
           ELSE /\ shVector' = VectorAdd(shVector, digest)
                /\ shPos' = shPos + 1
                /\ UNCHANGED shPc
    /\ UNCHANGED <<shDigests, shBytes, shOut, shRun, shRef, minVars,
                   othersOfHash>>

\* the threshold loop and shash.to_bytes(n_bytes, 'big', signed=False)
SimhashReturn ==
    /\ shPc = "loop" /\ shPos = Len(shDigests)
    /\ shOut' = [j \in 1..shBytes |->
                    ShashByte(shVector, j, shBytes, Len(shDigests))]
    /\ shPc' = "done"
    /\ UNCHANGED <<shDigests, shPos, shBytes, shVector, shRun, shRef, minVars,
                   othersOfHash>>

-----------------------------------------------------------------------------
(* The hashes on a sequence and on a permutation of it: the first run's    *)
(* result is kept, with whether the permutation moved an item, and the     *)
(* function runs again on the permuted sequence.                           *)

Reorderings(n) == {p \in [1..n -> 1..n] : \A i, j \in 1..n : p[i] = p[j] => i = j}

Permute(s, p) == [i \in 1..Len(s) |-> s[p[i]]]

RerunMinhash ==
    /\ mhPc = "done" /\ mhRun = 1
    /\ mhRun' = 2
    /\ \E p \in Reorderings(Len(mhFeatures)) :
          /\ mhFeatures' = Permute(mhFeatures, p)
          /\ mhRef' = [moved |-> Permute(mhFeatures, p) # mhFeatures,
                       result |-> mhValues]
    /\ mhPc' = "start" /\ mhPos' = 0 /\ mhValues' = <<>>
    /\ UNCHANGED <<simVars, othersOfHash>>

RerunSimhash ==
    /\ shPc = "done" /\ shRun = 1
    /\ shRun' = 2
    /\ \E p \in Reorderings(Len(shDigests)) :
          /\ shDigests' = Permute(shDigests, p)
          /\ shRef' = [moved |-> Permute(shDigests, p) # shDigests,
                       result |-> shOut]
    /\ shPc' = "start" /\ shPos' = 0 /\ shBytes' = 0 /\ shVector' = <<>>
    /\ shOut' = <<>>
    /\ UNCHANGED <<minVars, othersOfHash>>

NoRun == [moved |-> FALSE, result |-> <<>>]

MinhashIdle ==
    /\ mhPc = "idle" /\ mhFeatures = <<>> /\ mhPos = 0 /\ mhValues = <<>>
    /\ mhRun = 1 /\ mhRef = NoRun

MinhashReady ==
    /\ mhPc = "start" /\ mhPos = 0 /\ mhValues = <<>>
    /\ mhRun = 1 /\ mhRef = NoRun

SimhashIdle ==
    /\ shPc = "idle" /\ shDigests = <<>> /\ shPos = 0 /\ shBytes = 0
    /\ shVector = <<>> /\ shOut = <<>>
    /\ shRun = 1 /\ shRef = NoRun

SimhashReady ==
    /\ shPc = "start" /\ shPos = 0 /\ shBytes = 0 /\ shVector = <<>>
    /\ shOut = <<>>
    /\ shRun = 1 /\ shRef = NoRun

HashIdle == MinhashIdle /\ SimhashIdle

\* Inputs: feature streams and digest lists of up to MaxItems items.
MaxItems == 3

Features ==
    {<<1, 0, 0, 0>>, <<177, 121, 55, 158>>, <<255, 255, 255, 255>>}

SeqsUpTo(S, n) == UNION {[1..k -> S] : k \in 0..n}

Digests1 == {<<255>>, <<165>>, <<15>>}

Digests2 == {<<1, 128>>, <<128, 1>>, <<255, 0>>}

DigestLists ==
    SeqsUpTo(Digests1, MaxItems) \cup SeqsUpTo(Digests2, MaxItems)
        \cup {<<<<1, 2, 3, 4, 5, 6, 7, 8>>, <<255, 0, 255, 0, 255, 0, 255, 1>>,
               <<8, 7, 6, 5, 4, 3, 2, 129>>>>,
              <<<<1>>, <<1, 2>>>>, <<<<1, 2>>, <<1>>, <<3, 4>>>>}

\* one call of either function, or one call of each on a pair of items
HashInit ==
    \/ mhFeatures \in SeqsUpTo(Features, MaxItems) /\ MinhashReady
            /\ SimhashIdle
    \/ shDigests \in DigestLists /\ SimhashReady /\ MinhashIdle
    \/ /\ mhFeatures = <<<<177, 121, 55, 158>>, <<1, 0, 0, 0>>>> /\ MinhashReady
       /\ shDigests = <<<<165>>, <<15>>>> /\ SimhashReady

HashNext ==
    \/ MinhashStart \/ MinhashFeature \/ MinhashReturn
    \/ SimhashStart \/ SimhashDigest \/ SimhashReturn
    \/ RerunMinhash
    \/ RerunSimhash

-----------------------------------------------------------------------------
(* The fold of content_id_text and data_id (iscc.py): the least            *)
(* significant bits of the 128 minimum hashes make two 64-bit digests,     *)
(* which go through similarity_hash.                                       *)

\* str(x & 1) for the x at index j (from 0) of minhash
LsbAt(minhash, j) == minhash[j + 1][1] % 2

\* (mutant) the bits of lsb[from:from + 64] taken with the last one first
LsbDigest_Reversed(minhash, from) ==
    [k \in 1..8 |->
        LsbAt(minhash, from + 8 * (k - 1))
          + 2 * LsbAt(minhash, from + 8 * (k - 1) + 1)
          + 4 * LsbAt(minhash, from + 8 * (k - 1) + 2)
          + 8 * LsbAt(minhash, from + 8 * (k - 1) + 3)
          + 16 * LsbAt(minhash, from + 8 * (k - 1) + 4)
          + 32 * LsbAt(minhash, from + 8 * (k - 1) + 5)
          + 64 * LsbAt(minhash, from + 8 * (k - 1) + 6)
          + 128 * LsbAt(minhash, from + 8 * (k - 1) + 7)]

\* int(lsb[from:from + 64], 2).to_bytes(8, 'big', signed=False)
LsbDigest(minhash, from) ==
    [k \in 1..8 |->
        128 * LsbAt(minhash, from + 8 * (k - 1))
          + 64 * LsbAt(minhash, from + 8 * (k - 1) + 1)
          + 32 * LsbAt(minhash, from + 8 * (k - 1) + 2)
          + 16 * LsbAt(minhash, from + 8 * (k - 1) + 3)
          + 8 * LsbAt(minhash, from + 8 * (k - 1) + 4)
          + 4 * LsbAt(minhash, from + 8 * (k - 1) + 5)
          + 2 * LsbAt(minhash, from + 8 * (k - 1) + 6)
          + LsbAt(minhash, from + 8 * (k - 1) + 7)]

\* lsb, a and b of the minimum hashes, handed to similarity_hash((a, b))
FoldDigests ==
    /\ mhPc = "done" /\ shPc = "idle"
    /\ shDigests' = <<LsbDigest(mhValues, 0), LsbDigest(mhValues, 64)>>
    /\ shPc' = "start"
    /\ UNCHANGED <<shPos, shBytes, shVector, shOut, shRun, shRef, minVars,
                   othersOfHash>>

\* pairs of 8-byte digests
FoldBytes == {0, 1, 128, 165, 255}

FoldPairs ==
    {<<[k \in 1..8 |-> IF k = 1 THEN a ELSE IF k = 8 THEN b ELSE f],
       [k \in 1..8 |-> IF k = 1 THEN c ELSE IF k = 8 THEN d ELSE 90]>> :
        a \in FoldBytes, b \in FoldBytes, c \in FoldBytes, d \in FoldBytes,
        f \in {0, 165}}

\* the features of a text or of a data stream, then the fold; or
\* similarity_hash on a pair of 8-byte digests
FoldInit ==
    \/ mhFeatures \in SeqsUpTo(Features, MaxItems) /\ MinhashReady
            /\ SimhashIdle
    \/ shDigests \in FoldPairs /\ SimhashReady /\ MinhashIdle

FoldNext ==
    \/ MinhashStart \/ MinhashFeature \/ MinhashReturn
    \/ FoldDigests
    \/ SimhashStart \/ SimhashDigest \/ SimhashReturn

-----------------------------------------------------------------------------
(* sliding_window: the list version of iscc.py and the generator version   *)
(* of utils.py, called on the same sequence and width.                     *)

\* s[lo:hi] for 0 <= lo <= hi
Slice(s, lo, hi) == SubSeq(s, lo + 1, Min2(hi, Len(s)))

\* (mutant) len(range(len(text) - width + 1))
WindowCount_NoFloor(n, width) == Max2(n - width + 1, 0)

\* len(range(max(len(text) - width + 1, 1)))
WindowCount(n, width) == Max2(n - width + 1, 1)

\* [text[i:i + width] for i in idx]
sliding_window(text, width) ==
    [k \in 1..WindowCount(Len(text), width) |-> Slice(text, k - 1, k - 1 + width)]

\* iscc.sliding_window(text, width), then utils.sliding_window(seq, width):
\* the assert and idx are evaluated by the call, the slices on demand
WindowCall ==
    /\ swPc = "call"
    /\ IF swWidth >= 2
       THEN /\ swList' = sliding_window(swSeq, swWidth)
            /\ swPc' = "gen"
       ELSE /\ swPc' = "AssertionError"
            /\ UNCHANGED swList
    /\ UNCHANGED <<swSeq, swWidth, swIdx, swSlices, othersOfWindow>>

\* next() on the generator: seq[i : i + width] for the next i of idx
WindowYield ==
    /\ swPc = "gen" /\ swIdx < WindowCount(Len(swSeq), swWidth)
    /\ swSlices' = Append(swSlices, Slice(swSeq, swIdx, swIdx + swWidth))
    /\ swIdx' = swIdx + 1
    /\ UNCHANGED <<swPc, swSeq, swWidth, swList, othersOfWindow>>

\* next() on the generator when idx is used up: StopIteration
WindowStop ==
    /\ swPc = "gen" /\ swIdx = WindowCount(Len(swSeq), swWidth)
    /\ swPc' = "done"
    /\ UNCHANGED <<swSeq, swWidth, swList, swIdx, swSlices, othersOfWindow>>

WindowIdle ==
    /\ swPc = "idle" /\ swSeq = <<>> /\ swWidth = 0 /\ swList = <<>>
    /\ swIdx = 0 /\ swSlices = <<>>

\* Inputs: every sequence over three items up to MaxSeqLen, every width up
\* to MaxWidth (width 1 fails the assert).
MaxSeqLen == 5

MaxWidth == 4

Items == {97, 98, 99}

WindowInit ==
    /\ swPc = "call"
    /\ swSeq \in SeqsUpTo(Items, MaxSeqLen)
    /\ swWidth \in 1..MaxWidth
    /\ swList = <<>> /\ swIdx = 0 /\ swSlices = <<>>

WindowNext == WindowCall \/ WindowYield \/ WindowStop

-----------------------------------------------------------------------------
(* trim.  A text is a sequence of code points; text.encode('utf-8') is     *)
(* the concatenation of the code points' UTF-8 bytes and fails on a        *)
(* surrogate code point.                                                   *)

\* const.INPUT_TRIM
INPUT_TRIM == 128

IsSurrogate(c) == c >= 55296 /\ c <= 57343

\* the UTF-8 bytes of one code point
Utf8(c) ==
    IF c < 128 THEN <<c>>
    ELSE IF c < 2048 THEN <<192 + (c \div 64), 128 + (c % 64)>>
    ELSE IF c < 65536
         THEN <<224 + (c \div 4096), 128 + ((c \div 64) % 64), 128 + (c % 64)>>
         ELSE <<240 + (c \div 262144), 128 + ((c \div 4096) % 64),
                128 + ((c \div 64) % 64), 128 + (c % 64)>>

\* the UTF-8 bytes of text[lo-1:hi]
RECURSIVE Utf8Range(_, _, _)
Utf8Range(text, lo, hi) ==
    IF lo > hi THEN <<>>
    ELSE IF lo = hi THEN Utf8(text[lo])
    ELSE LET mid == (lo + hi) \div 2
         IN  Utf8Range(text, lo, mid) \o Utf8Range(text, mid + 1, hi)

\* text.encode('utf-8')
Utf8Encode(text) ==
    IF \E i \in 1..Len(text) : IsSurrogate(text[i])
    THEN Raise("UnicodeEncodeError")
    ELSE Return(Utf8Range(text, 1, Len(text)))

\* (mutant) len(text) <= const.INPUT_TRIM
TrimFits_CodePoints(text, data) == Len(text) <= INPUT_TRIM

\* len(data) <= const.INPUT_TRIM
TrimFits(text, data) == Len(data) <= INPUT_TRIM

\* One turn of trim's loop: return text, or text = text[:-1].
TrimTurn ==
    /\ txPc = "trim"
    /\ LET data == Utf8Encode(txText)
       IN  IF Raised(data)
           THEN /\ txPc' = data.err
                /\ UNCHANGED <<txText, txOut>>
           ELSE IF TrimFits(txText, data.val)
                THEN /\ txOut' = txText
                     /\ txPc' = "trimmed"
                     /\ UNCHANGED txText
                ELSE /\ txText' = Take(txText, Len(txText) - 1)
                     /\ UNCHANGED <<txPc, txOut>>
    /\ UNCHANGED <<txIn, txAgain, othersOfText>>

Repeat(c, n) == [i \in 1..n |-> c]

\* Inputs of trim: INPUT_TRIM copies of a character of 1, 2, 3 or 4 bytes;
\* a run of one-byte characters that ends within MaxPadShort of the cap,
\* followed by up to MaxTail characters; a text with a surrogate.
MaxPadShort == 3

MaxTail == 2

TrimChars == {97, 252, 39529, 128512}

TrimTexts ==
    {Repeat(c, INPUT_TRIM) : c \in TrimChars}
        \cup {Repeat(97, k) \o t :
                 k \in (INPUT_TRIM - MaxPadShort)..INPUT_TRIM,
                 t \in SeqsUpTo(TrimChars, MaxTail)}
        \cup SeqsUpTo(TrimChars, MaxTail)
        \cup {<<97, 55296>>}

-----------------------------------------------------------------------------
(* normalize_text over the characters                                      *)
(*   A a K k I i (letters), U+212A (Kelvin sign), 1 (digit), + (symbol),   *)
(*   U+0307 U+0308 U+0327 (combining dot above, diaeresis, cedilla) and    *)
(*   the letters they compose: U+00C4 U+00E4 U+00CF U+00EF U+0130 U+0136   *)
(*   U+0137 U+0226 U+0227,                                                 *)
(*   U+1100 U+1161 U+AC00 (Hangul jamo and their syllable),                *)
(*   space, U+2028 (line separator), newline (control), - (punctuation),   *)
(*   the letters, whitespace and punctuation of the texts of                *)
(*   test_text_normalize: H W c d e g h l n o r t w y, tab, carriage       *)
(*   return, U+00A0 (no-break space), ? ! and U+2013 (en dash),            *)
(* with the Unicode data of these characters.                              *)

\* unicodedata.category(c)[0]
Category(c) ==
    CASE c \in {65, 97, 75, 107, 73, 105, 196, 228, 207, 239, 304, 310, 311,
                550, 551, 8490, 4352, 4449, 44032,
                72, 87, 99, 100, 101, 103, 104, 108, 110, 111, 114, 116,
                119, 121} -> "L"
      [] c = 49 -> "N"
      [] c = 43 -> "S"
      [] c \in {775, 776, 807} -> "M"
      [] c \in {32, 160, 8232} -> "Z"
      [] c \in {33, 45, 63, 8211} -> "P"
      [] OTHER -> "C"

\* unicodedata.combining(c)
CombiningClass(c) ==
    CASE c \in {775, 776} -> 230
      [] c = 807 -> 202
      [] OTHER -> 0

\* the full canonical decomposition of one character
Decomposition(c) ==
    CASE c = 196 -> <<65, 776>>
      [] c = 228 -> <<97, 776>>
      [] c = 207 -> <<73, 776>>
      [] c = 239 -> <<105, 776>>
      [] c = 304 -> <<73, 775>>
      [] c = 310 -> <<75, 807>>
      [] c = 311 -> <<107, 807>>
      [] c = 550 -> <<65, 775>>
      [] c = 551 -> <<97, 775>>
      [] c = 8490 -> <<75>>
      [] c = 44032 -> <<4352, 4449>>
      [] OTHER -> <<c>>

\* the primary composite of a starter and a following character, 0 if none
\* (the letters of the test texts meet no combining mark in any input)
Composite(a, b) ==
    CASE a = 65 /\ b = 776 -> 196
      [] a = 97 /\ b = 776 -> 228
      [] a = 73 /\ b = 776 -> 207
      [] a = 105 /\ b = 776 -> 239
      [] a = 73 /\ b = 775 -> 304
      [] a = 75 /\ b = 807 -> 310
      [] a = 107 /\ b = 807 -> 311
      [] a = 65 /\ b = 775 -> 550
      [] a = 97 /\ b = 775 -> 551
      [] a = 4352 /\ b = 4449 -> 44032
      [] OTHER -> 0

\* c.lower()
Lower(c) ==
    CASE c = 65 -> <<97>>
      [] c = 72 -> <<104>>
      [] c = 87 -> <<119>>
      [] c = 75 -> <<107>>
      [] c = 73 -> <<105>>
      [] c = 196 -> <<228>>
      [] c = 207 -> <<239>>
      [] c = 304 -> <<105, 775>>
      [] c = 310 -> <<311>>
      [] c = 550 -> <<551>>
      [] c = 8490 -> <<107>>
      [] OTHER -> <<c>>

\* c.isspace(), the separators of str.split()
IsSpace(c) == c \in {32, 160, 8232, 9, 10, 13}

RECURSIVE Decompose(_, _)
Decompose(text, i) ==
    IF i > Len(text) THEN <<>> ELSE Decomposition(text[i]) \o Decompose(text, i + 1)

\* canonical ordering: a mark moves in front of the marks of a higher
\* combining class that precede it, never across a starter
RECURSIVE InsertMark(_, _)
InsertMark(s, c) ==
    IF s # <<>> /\ CombiningClass(c) # 0
           /\ CombiningClass(s[Len(s)]) > CombiningClass(c)
    THEN Append(InsertMark(SubSeq(s, 1, Len(s) - 1), c), s[Len(s)])
    ELSE Append(s, c)

RECURSIVE Reorder(_, _, _)
Reorder(s, i, acc) ==
    IF i > Len(s) THEN acc ELSE Reorder(s, i + 1, InsertMark(acc, s[i]))

\* unicodedata.normalize('NFD', text)
NFD(text) == Reorder(Decompose(text, 1), 1, <<>>)

\* canonical composition of a decomposed text: acc is the text composed so
\* far, starter the position in acc of the last starter (0: none), last
\* the combining class of the last character kept
RECURSIVE ComposeFrom(_, _, _, _, _)
ComposeFrom(s, i, acc, starter, last) ==
    IF i > Len(s)
    THEN acc
    ELSE LET ch    == s[i]
             class == CombiningClass(ch)
             comp  == IF starter = 0 THEN 0 ELSE Composite(acc[starter], ch)
         IN  IF comp # 0 /\ (last < class \/ (last = 0 /\ starter = Len(acc)))
             THEN ComposeFrom(s, i + 1, [acc EXCEPT ![starter] = comp],
                              starter, last)
             ELSE ComposeFrom(s, i + 1, Append(acc, ch),
                              IF class = 0 THEN Len(acc) + 1 ELSE starter,
                              class)

\* unicodedata.normalize('NFC', text)
NFC(text) == ComposeFrom(NFD(text), 1, <<>>, 0, 0)

\* the loop over decomposed: ' ' for a separator, c.lower() for a letter,
\* number or symbol, nothing for the rest
RECURSIVE Filter(_, _)
Filter(decomposed, i) ==
    IF i > Len(decomposed)
    THEN <<>>
    ELSE LET c   == decomposed[i]
             cat == Category(c)
         IN  (IF cat = "Z" THEN <<32>>
              ELSE IF cat \in {"L", "N", "S"} THEN Lower(c)
              ELSE <<>>) \o Filter(decomposed, i + 1)

\* (mutant) filtered.replace('  ', ' '): each pair of spaces becomes one
RECURSIVE Collapse_ReplacePairs(_)
Collapse_ReplacePairs(filtered) ==
    IF Len(filtered) < 2
    THEN filtered
    ELSE IF filtered[1] = 32 /\ filtered[2] = 32
         THEN <<32>> \o Collapse_ReplacePairs(SubSeq(filtered, 3, Len(filtered)))
         ELSE <<filtered[1]>> \o Collapse_ReplacePairs(Tail(filtered))

\* ' '.join(filtered.split()): the words between runs of whitespace,
\* one space between two words
RECURSIVE Collapse(_)
Collapse(filtered) ==
    IF filtered = <<>>
    THEN <<>>
    ELSE IF IsSpace(filtered[1])
         THEN Collapse(Tail(filtered))
         ELSE LET rest == Collapse(Tail(filtered))
              IN  IF Len(filtered) >= 2 /\ IsSpace(filtered[2]) /\ rest # <<>>
                  THEN <<filtered[1], 32>> \o rest
                  ELSE <<filtered[1]>> \o rest

normalize_text(text) == NFC(Collapse(Filter(NFD(text), 1)))

NormalizeText ==
    /\ txPc = "normalize"
    /\ txOut' = normalize_text(txIn)
    /\ txPc' = "normalized"
    /\ UNCHANGED <<txIn, txText, txAgain, othersOfText>>

\* normalize_text on what normalize_text returned
NormalizeAgain ==
    /\ txPc = "normalized"
    /\ txAgain' = normalize_text(txOut)
    /\ txPc' = "renormalized"
    /\ UNCHANGED <<txIn, txText, txOut, othersOfText>>

TextIdle ==
    /\ txPc = "idle" /\ txIn = <<>> /\ txText = <<>> /\ txOut = <<>>
    /\ txAgain = <<>>

\* Inputs of normalize_text: every text of up to MaxTextLen characters.
MaxTextLen == 3

TextChars ==
    {65, 196, 228, 304, 8490, 43, 4352, 4449, 776, 32, 160, 8232, 9, 10, 45, 63}

\* "Hello\nWorld"
TextHelloNewline == <<72, 101, 108, 108, 111, 10, 87, 111, 114, 108, 100>>

\* "  Hello  World ? "
TextHelloQuestion ==
    <<32, 32, 72, 101, 108, 108, 111, 32, 32, 87, 111, 114, 108, 100, 32, 63,
      32>>

\* the end of the long text: "\u2013  is a tric\t ky \u00A0 thing!\r",
\* without " is a"
TextTrickyThing ==
    <<8211, 32, 32, 116, 114, 105, 99, 9, 32, 107, 121, 32, 160, 32, 116, 104,
      105, 110, 103, 33, 13>>

TextExamples == {TextHelloNewline, TextHelloQuestion, TextTrickyThing}

TextInit ==
    /\ \/ txPc = "trim" /\ txIn \in TrimTexts
       \/ /\ txPc = "normalize"
          /\ txIn \in SeqsUpTo(TextChars, MaxTextLen) \cup TextExamples
    /\ txText = txIn /\ txOut = <<>> /\ txAgain = <<>>

TextNext == TrimTurn \/ NormalizeText \/ NormalizeAgain

-----------------------------------------------------------------------------
(* distance: the helper of iscc.py over base-58 codes and the helper of    *)
(* metrics.py over base-32 codes.  iscc.codec supplies decode_base32 and   *)
(* read_header: a code is the RFC 4648 base-32 text of two header bytes    *)
(* and the digest; the header's four fields take one nibble each, and the  *)
(* length field l stands for (l + 1) * 32 bits.                            *)

\* the value of a base-32 symbol: "A".."Z" are 0..25, "2".."7" are 26..31
Base32Value(c) == IF c \in 65..90 THEN c - 65 ELSE c - 24

Base32Symbol(v) == IF v < 26 THEN v + 65 ELSE v + 24

\* bit k (0 the first) of the bit string of the symbols of a code
CodeBitAt(code, k) ==
    (Base32Value(code[(k \div 5) + 1]) \div Pow2(4 - (k % 5))) % 2

\* bit k (0 the first) of the bit string of a byte sequence, zero beyond it
DataBitAt(data, k) ==
    IF k \div 8 >= Len(data) THEN 0
    ELSE (data[(k \div 8) + 1] \div Pow2(7 - (k % 8))) % 2

\* the whole bytes the symbols of the code carry
decode_base32(code) ==
    [i \in 1..((5 * Len(code)) \div 8) |->
        LET k == 8 * (i - 1)
        IN  128 * CodeBitAt(code, k) + 64 * CodeBitAt(code, k + 1)
              + 32 * CodeBitAt(code, k + 2) + 16 * CodeBitAt(code, k + 3)
              + 8 * CodeBitAt(code, k + 4) + 4 * CodeBitAt(code, k + 5)
              + 2 * CodeBitAt(code, k + 6) + CodeBitAt(code, k + 7)]

\* the symbols that carry the bytes, the last one filled with zero bits
encode_base32(data) ==
    [i \in 1..((8 * Len(data) + 4) \div 5) |->
        LET k == 5 * (i - 1)
        IN  Base32Symbol(16 * DataBitAt(data, k) + 8 * DataBitAt(data, k + 1)
                           + 4 * DataBitAt(data, k + 2)
                           + 2 * DataBitAt(data, k + 3) + DataBitAt(data, k + 4))]

\* (main type, sub type, version, length in bits, tail)
read_header(data) ==
    <<data[1] \div 16, data[1] % 16, data[2] \div 16,
      ((data[2] % 16) + 1) * 32, Drop(data, 2)>>

write_header(mt, st, vs, bits) == <<16 * mt + st, 16 * vs + (bits \div 32) - 1>>

\* a[:-1] of a header tuple
HeaderValues(h) == SubSeq(h, 1, 4)

\* the number of bits in which two bytes differ
RECURSIVE ByteXorCount(_, _)
ByteXorCount(x, y) ==
    IF x = 0 /\ y = 0
    THEN 0
    ELSE (IF x % 2 = y % 2 THEN 0 ELSE 1) + ByteXorCount(x \div 2, y \div 2)

RECURSIVE SumXorCount(_, _, _)
SumXorCount(a, b, i) ==
    IF i > Len(a) THEN 0
    ELSE ByteXorCount(a[i], b[i]) + SumXorCount(a, b, i + 1)

\* count_xor(hex2ba(a.hex()), hex2ba(b.hex())): bitarrays of unequal length
\* are refused
distance_bytes(a, b) ==
    IF Len(a) # Len(b)
    THEN Raise("ValueError")
    ELSE Return(SumXorCount(a, b, 1))

\* (mutant) the prefix is as long as the longer digest
CommonPrefixBytes_Longest(a, b) == Max2(a[4], b[4]) \div 8

\* nbytes = min((a[3], b[3])) // 8
CommonPrefixBytes(a, b) == Min2(a[4], b[4]) \div 8

distance_code(ca, cb, mixed) ==
    LET a == read_header(decode_base32(ca))
        b == read_header(decode_base32(cb))
    IN  IF mixed
        THEN IF ~(a[1] = b[1] /\ a[3] = b[3])
             THEN Raise("AssertionError")
             ELSE LET nbytes == CommonPrefixBytes(a, b)
                  IN  distance_bytes(Take(a[5], nbytes), Take(b[5], nbytes))
        ELSE IF HeaderValues(a) # HeaderValues(b)
             THEN Raise("AssertionError")
             ELSE distance_bytes(Take(a[5], a[4] \div 8), Take(b[5], b[4] \div 8))

\* int.from_bytes(a, 'big') ^ int.from_bytes(b, 'big'), bits counted: the
\* shorter byte string is extended with zero bytes at its front
IntXorCount(a, b) ==
    LET n  == Max2(Len(a), Len(b))
        pa == Repeat(0, n - Len(a)) \o a
        pb == Repeat(0, n - Len(b)) \o b
    IN  SumXorCount(pa, pb, 1)

\* iscc.distance on two strings
distance(ca, cb) ==
    LET a == decode(ca)
        b == decode(cb)
    IN  IF Raised(a) THEN a
        ELSE IF Raised(b) THEN b
        ELSE Return(IntXorCount(Drop(a.val, 1), Drop(b.val, 1)))

DistanceLegacy ==
    /\ diPc = "call" /\ diFn = "iscc"
    /\ diOut' = distance(diA, diB)
    /\ diPc' = "done"
    /\ UNCHANGED <<diFn, diA, diB, diMixed, othersOfDistance>>

DistanceMetrics ==
    /\ diPc = "call" /\ diFn = "metrics"
    /\ diOut' = distance_code(diA, diB, diMixed)
    /\ diPc' = "done"
    /\ UNCHANGED <<diFn, diA, diB, diMixed, othersOfDistance>>

DistanceIdle ==
    /\ diPc = "idle" /\ diFn = "idle" /\ diA = <<>> /\ diB = <<>>
    /\ diMixed = FALSE /\ diOut = Return(0)

\* Digests of 16 bytes; a code of 64 bits carries the first 8 of them.
DistanceDigests ==
    {[i \in 1..16 |-> IF i = 1 THEN a ELSE IF i = 8 THEN b
                      ELSE IF i = 9 THEN c ELSE 90] :
        a \in {0, 255}, b \in {0, 129}, c \in {7, 8}}

\* header bytes of the base-58 codes: Meta-ID, Content-ID-Text and its
\* partial variant, Data-ID
LegacyHeads == {0, 16, 17, 32}

LegacyCodes ==
    {encode(<<h>> \o Take(d, 8)).val : h \in LegacyHeads, d \in DistanceDigests}

\* main types Content (2) and Data (3), two sub types, two versions, 64 and
\* 128 bits
Base32Codes ==
    {encode_base32(write_header(mt, st, vs, bits) \o Take(d, bits \div 8)) :
        mt \in {2, 3}, st \in {0, 1}, vs \in {0, 1}, bits \in {64, 128},
        d \in {x \in DistanceDigests : x[1] = 0}}

DistanceInit ==
    /\ diPc = "call"
    /\ \/ diFn = "iscc" /\ diA \in LegacyCodes /\ diB \in LegacyCodes
          /\ diMixed = FALSE
       \/ diFn = "metrics" /\ diA \in Base32Codes /\ diB \in Base32Codes
          /\ diMixed \in BOOLEAN
    /\ diOut = Return(0)

DistanceNext == DistanceLegacy \/ DistanceMetrics

-----------------------------------------------------------------------------
(* Streamable (utils.py): constructed over a file path, raw bytes or a     *)
(* stream of the caller, then used as the context manager of a with-block  *)
(* that reads the stream and is left by a return or by an exception.       *)

\* (mutant) __exit__ never closes
ExitOpen_Never(do_close, open) == open

\* if self.do_close: self.stream.close()
ExitOpen(do_close, open) == IF do_close THEN FALSE ELSE open

\* __init__
StreamableNew ==
    /\ stPc = "new"
    /\ \/ /\ stKind = "path" /\ stExists
          /\ stOrigin' = "open" /\ stOpen' = TRUE /\ stPc' = "made"
          /\ UNCHANGED stExc
       \/ /\ stKind = "path" /\ ~stExists
          /\ stExc' = "FileNotFoundError" /\ stPc' = "raised"
          /\ UNCHANGED <<stOrigin, stOpen>>
       \/ /\ stKind = "bytes"
          /\ stOrigin' = "BytesIO" /\ stOpen' = TRUE /\ stPc' = "made"
          /\ UNCHANGED stExc
       \/ /\ stKind = "stream"
          /\ stOrigin' = "caller" /\ stPc' = "made"
          /\ UNCHANGED <<stOpen, stExc>>
    /\ UNCHANGED <<stKind, stClose, stExists, stSize, stPos, othersOfStreamable>>

\* __enter__
StreamableEnter ==
    /\ stPc = "made"
    /\ stPc' = "with"
    /\ UNCHANGED <<stKind, stClose, stExists, stSize, stPos, stOrigin, stOpen,
                   stExc, othersOfStreamable>>

\* the block reads one more byte
BlockRead ==
    /\ stPc = "with" /\ stPos < stSize
    /\ stPos' = stPos + 1
    /\ UNCHANGED <<stPc, stKind, stClose, stExists, stSize, stOrigin, stOpen,
                   stExc, othersOfStreamable>>

\* the block ends
BlockReturn ==
    /\ stPc = "with"
    /\ stPc' = "exit" /\ stExc' = "none"
    /\ UNCHANGED <<stKind, stClose, stExists, stSize, stPos, stOrigin, stOpen,
                   othersOfStreamable>>

\* the block raises
BlockRaise ==
    /\ stPc = "with"
    /\ stPc' = "exit" /\ stExc' = "Exception"
    /\ UNCHANGED <<stKind, stClose, stExists, stSize, stPos, stOrigin, stOpen,
                   othersOfStreamable>>

\* __exit__ (it returns None: the exception goes on to the caller)
StreamableExit ==
    /\ stPc = "exit"
    /\ stOpen' = ExitOpen(stClose, stOpen)
    /\ stPc' = "left"
    /\ UNCHANGED <<stKind, stClose, stExists, stSize, stPos, stOrigin, stExc,
                   othersOfStreamable>>

StreamableIdle ==
    /\ stPc = "idle" /\ stKind = "none" /\ stClose = TRUE /\ stExists = FALSE
    /\ stSize = 0 /\ stPos = 0 /\ stOrigin = "none" /\ stOpen = FALSE
    /\ stExc = "none"

\* the most bytes behind a stream
MaxFileLen == 3

\* a stream of the caller is open when it is handed over
StreamableInit ==
    /\ stPc = "new"
    /\ stKind \in {"path", "bytes", "stream"}
    /\ stClose \in BOOLEAN
    /\ stExists \in BOOLEAN /\ (stKind # "path" => stExists = FALSE)
    /\ stSize \in 0..MaxFileLen /\ (stKind = "path" /\ ~stExists => stSize = 0)
    /\ stPos = 0 /\ stOrigin = "none" /\ stOpen = (stKind = "stream")
    /\ stExc = "none"

StreamableNext ==
    \/ StreamableNew \/ StreamableEnter \/ BlockRead \/ BlockReturn
    \/ BlockRaise \/ StreamableExit

-----------------------------------------------------------------------------
(* instance_id and top_hash (iscc.py) on data given as bytes.  A digest is *)
(* kept as the term that was hashed: <<0, pos, len>> is sha256d of the tag *)
(* 0x00 and the slice of len bytes at pos, <<1, a, b>> is sha256d of the   *)
(* tag 0x01 and the digests a and b.                                       *)

LeafNode(pos, len) == <<0, pos, len>>

\* hash_inner_nodes(a, b)
hash_inner_nodes(a, b) == <<1, a, b>>

\* if size % 2 == 1: pairwise_hashed.append(hash_inner_nodes(hashes[-1], hashes[-1]))
OddTail(hashes) ==
    IF Len(hashes) % 2 = 1
    THEN <<hash_inner_nodes(hashes[Len(hashes)], hashes[Len(hashes)])>>
    ELSE <<>>

\* for i in range(0, len(hashes) - 1, 2): ... hash_inner_nodes(hashes[i], hashes[i + 1])
PairwiseHashed(hashes) ==
    [i \in 1..(Len(hashes) \div 2) |->
        hash_inner_nodes(hashes[2 * i - 1], hashes[2 * i])] \o OddTail(hashes)

\* the depth of calls at which the interpreter raises RecursionError (1000
\* by default; a level of 2^RecursionLimit hashes is out of the model's reach)
RecursionLimit == 6

\* chunk = data.read(64000); if chunk: append the leaf; else: break and call
\* top_hash(leaf_node_digests)
InstanceRead ==
    /\ thPc = "read"
    /\ LET n == Min2(64000, thSize - thPos)
       IN  IF n > 0
           THEN /\ thHashes' = Append(thHashes, LeafNode(thPos, n))
                /\ thPos' = thPos + n
                /\ UNCHANGED <<thPc, thDepth, thLevels>>
           ELSE /\ thPc' = "top" /\ thDepth' = 1
                /\ thLevels' = <<Len(thHashes)>>
                /\ UNCHANGED <<thHashes, thPos>>
    /\ UNCHANGED <<thSize, thOut, othersOfMerkle>>

\* one call of top_hash: return hashes[0], or call top_hash(pairwise_hashed)
TopHashCall ==
    /\ thPc = "top"
    /\ IF Len(thHashes) = 1
       THEN /\ thOut' = thHashes[1] /\ thPc' = "root"
            /\ UNCHANGED <<thHashes, thDepth, thLevels>>
       ELSE IF thDepth >= RecursionLimit
       THEN /\ thPc' = "RecursionError"
            /\ UNCHANGED <<thHashes, thDepth, thLevels, thOut>>
       ELSE /\ thHashes' = PairwiseHashed(thHashes)
            /\ thDepth' = thDepth + 1
            /\ thLevels' = Append(thLevels, Len(PairwiseHashed(thHashes)))
            /\ UNCHANGED <<thPc, thOut>>
    /\ UNCHANGED <<thSize, thPos, othersOfMerkle>>

\* encode(const.HEAD_IID + top_hash_digest[:8]): the code of the root
InstanceReturn ==
    /\ thPc = "root"
    /\ thOut' = <<2, thOut>>
    /\ thPc' = "returned"
    /\ UNCHANGED <<thSize, thPos, thHashes, thDepth, thLevels, othersOfMerkle>>

MerkleIdle ==
    /\ thPc = "idle" /\ thSize = 0 /\ thPos = 0 /\ thHashes = <<>>
    /\ thDepth = 0 /\ thLevels = <<>> /\ thOut = <<>>

\* the most leaves of an input
MaxLeaves == 8

\* data of no bytes, and of k leaves with a full or a one-byte last slice
MerkleInit ==
    /\ thPc = "read"
    /\ thSize \in {0} \cup {64000 * k : k \in 1..MaxLeaves}
                     \cup {64000 * (k - 1) + 1 : k \in 1..MaxLeaves}
    /\ thPos = 0 /\ thHashes = <<>> /\ thDepth = 0 /\ thLevels = <<>>
    /\ thOut = <<>>

MerkleNext == InstanceRead \/ TopHashCall \/ InstanceReturn

-----------------------------------------------------------------------------
(* meta_id (iscc.py) up to the text it hashes: NFKC of both arguments, the *)
(* two calls of trim, the join and strip.  The code returned is kept as    *)
(* the text that steps 4 to 9 turn into it.                                *)

\* compatibility decomposition of one character: U+FB01 (the ligature fi)
\* is "fi"; the other characters of the inputs have none
Compat(c) == IF c = 64257 THEN <<102, 105>> ELSE <<c>>

RECURSIVE CompatRange(_, _, _)
CompatRange(text, lo, hi) ==
    IF lo > hi THEN <<>>
    ELSE IF lo = hi THEN Compat(text[lo])
    ELSE LET mid == (lo + hi) \div 2
         IN  CompatRange(text, lo, mid) \o CompatRange(text, mid + 1, hi)

\* a character in front of which a text can be cut before it is normalized:
\* a starter without a decomposition that is the second part of no composite
Inert(c) ==
    /\ CombiningClass(c) = 0 /\ Decomposition(c) = <<c>>
    /\ \A a \in {65, 73, 75, 97, 105, 107, 4352} : Composite(a, c) = 0

\* NFC of s[lo-1:hi], by halves where the cut is in front of an inert
\* character
RECURSIVE NFCRange(_, _, _)
NFCRange(s, lo, hi) ==
    LET mid == (lo + hi) \div 2
    IN  IF hi - lo >= 8 /\ Inert(s[mid + 1])
        THEN NFCRange(s, lo, mid) \o NFCRange(s, mid + 1, hi)
        ELSE NFC(SubSeq(s, lo, hi))

\* unicodedata.normalize('NFKC', text)
NFKC(text) ==
    LET s == CompatRange(text, 1, Len(text)) IN NFCRange(s, 1, Len(s))

\* str.strip()
RECURSIVE Strip(_)
Strip(s) ==
    IF s = <<>> THEN s
    ELSE IF IsSpace(s[1]) THEN Strip(Drop(s, 1))
    ELSE IF IsSpace(s[Len(s)]) THEN Strip(Take(s, Len(s) - 1))
    ELSE s

\* ' '.join((title, extra)).strip()
MetaConcat(title, extra) == Strip(title \o <<32>> \o extra)

\* 1. title and extra are NFKC-normalized
MetaNfkc ==
    /\ miPc = "nfkc"
    /\ miTitle' = NFKC(miTitleIn)
    /\ miExtra' = NFKC(miExtraIn)
    /\ miPc' = "title"
    /\ UNCHANGED <<miTitleIn, miExtraIn, miOut, othersOfMeta>>

\* 2. title = trim(title): one turn of trim's loop
MetaTrimTitle ==
    /\ miPc = "title"
    /\ LET data == Utf8Encode(miTitle)
       IN  IF Raised(data)
           THEN miPc' = data.err /\ UNCHANGED miTitle
           ELSE IF TrimFits(miTitle, data.val)
                THEN miPc' = "extra" /\ UNCHANGED miTitle
                ELSE /\ miTitle' = Take(miTitle, Len(miTitle) - 1)
                     /\ UNCHANGED miPc
    /\ UNCHANGED <<miTitleIn, miExtraIn, miExtra, miOut, othersOfMeta>>

\* 2. extra = trim(extra): one turn of trim's loop
MetaTrimExtra ==
    /\ miPc = "extra"
    /\ LET data == Utf8Encode(miExtra)
       IN  IF Raised(data)
           THEN miPc' = data.err /\ UNCHANGED miExtra
           ELSE IF TrimFits(miExtra, data.val)
                THEN miPc' = "rest" /\ UNCHANGED miExtra
                ELSE /\ miExtra' = Take(miExtra, Len(miExtra) - 1)
                     /\ UNCHANGED miPc
    /\ UNCHANGED <<miTitleIn, miExtraIn, miTitle, miOut, othersOfMeta>>

\* 3. to 9.: return encode(meta_id_digest), title, extra
MetaReturn ==
    /\ miPc = "rest"
    /\ miOut' = [code |-> MetaConcat(miTitle, miExtra), title |-> miTitle,
                 extra |-> miExtra]
    /\ miPc' = "returned"
    /\ UNCHANGED <<miTitleIn, miExtraIn, miTitle, miExtra, othersOfMeta>>

NoMeta == [code |-> <<>>, title |-> <<>>, extra |-> <<>>]

MetaIdle ==
    /\ miPc = "idle" /\ miTitleIn = <<>> /\ miExtraIn = <<>>
    /\ miTitle = <<>> /\ miExtra = <<>> /\ miOut = NoMeta

\* Inputs: runs of "a" and runs of 32 four-byte characters that end up to
\* MaxOver bytes beyond INPUT_TRIM, runs of two-, three- and four-byte
\* characters around the cap, a short text, a text with a composite, and
\* a text that starts with the ligature U+FB01.
MaxOver == 3

MetaTexts ==
    {<<>>, Repeat(97, 5), <<196, 32, 65, 776>>, Repeat(128512, 31),
     Repeat(39529, 43), Repeat(252, 65), <<64257>> \o Repeat(97, 127)}
        \cup {Repeat(128512, 32) \o Repeat(97, k) : k \in 0..MaxOver}
        \cup {Repeat(97, INPUT_TRIM + k) : k \in 0..MaxOver}

MetaInit ==
    /\ miPc = "nfkc"
    /\ miTitleIn \in MetaTexts /\ miExtraIn \in MetaTexts
    /\ miTitle = miTitleIn /\ miExtra = miExtraIn /\ miOut = NoMeta

MetaNext == MetaNfkc \/ MetaTrimTitle \/ MetaTrimExtra \/ MetaReturn

-----------------------------------------------------------------------------
(* Specifications: one per group of operations; the other groups idle.      *)

InitCodec ==
    /\ CodecInit /\ StreamIdle /\ ChunksIdle /\ LeavesIdle /\ HashIdle
    /\ WindowIdle /\ TextIdle
    /\ DistanceIdle
    /\ StreamableIdle
    /\ MerkleIdle
    /\ MetaIdle

SpecCodec == InitCodec /\ [][CodecNext]_vars

InitChunks ==
    /\ ChunksInit /\ CodecIdle /\ LeavesIdle /\ HashIdle /\ WindowIdle
    /\ TextIdle
    /\ DistanceIdle
    /\ StreamableIdle
    /\ MerkleIdle
    /\ MetaIdle

SpecChunks == InitChunks /\ [][ChunksNext]_vars

InitProviders ==
    ProvidersInit /\ CodecIdle /\ HashIdle /\ WindowIdle /\ TextIdle
    /\ DistanceIdle
    /\ StreamableIdle
    /\ MerkleIdle
    /\ MetaIdle

SpecProviders == InitProviders /\ [][ProvidersNext]_vars

InitHash ==
    /\ HashInit /\ CodecIdle /\ StreamIdle /\ ChunksIdle /\ LeavesIdle
    /\ WindowIdle /\ TextIdle
    /\ DistanceIdle
    /\ StreamableIdle
    /\ MerkleIdle
    /\ MetaIdle

SpecHash == InitHash /\ [][HashNext]_vars

InitWindow ==
    /\ WindowInit /\ CodecIdle /\ StreamIdle /\ ChunksIdle /\ LeavesIdle
    /\ HashIdle /\ TextIdle
    /\ DistanceIdle
    /\ StreamableIdle
    /\ MerkleIdle
    /\ MetaIdle

SpecWindow == InitWindow /\ [][WindowNext]_vars

InitText ==
    /\ TextInit /\ CodecIdle /\ StreamIdle /\ ChunksIdle /\ LeavesIdle
    /\ HashIdle /\ WindowIdle
    /\ DistanceIdle
    /\ StreamableIdle
    /\ MerkleIdle
    /\ MetaIdle

SpecText == InitText /\ [][TextNext]_vars

InitDistance ==
    /\ DistanceInit /\ CodecIdle /\ StreamIdle /\ ChunksIdle /\ LeavesIdle
    /\ HashIdle /\ WindowIdle /\ TextIdle
    /\ StreamableIdle
    /\ MerkleIdle
    /\ MetaIdle

SpecDistance == InitDistance /\ [][DistanceNext]_vars

InitStreamable ==
    /\ StreamableInit /\ CodecIdle /\ StreamIdle /\ ChunksIdle /\ LeavesIdle
    /\ HashIdle /\ WindowIdle /\ TextIdle /\ DistanceIdle
    /\ MerkleIdle
    /\ MetaIdle

SpecStreamable == InitStreamable /\ [][StreamableNext]_vars

InitMerkle ==
    /\ MerkleInit /\ CodecIdle /\ StreamIdle /\ ChunksIdle /\ LeavesIdle
    /\ HashIdle /\ WindowIdle /\ TextIdle /\ DistanceIdle /\ StreamableIdle
    /\ MetaIdle

SpecMerkle == InitMerkle /\ [][MerkleNext]_vars

InitMeta ==
    /\ MetaInit /\ CodecIdle /\ StreamIdle /\ ChunksIdle /\ LeavesIdle
    /\ HashIdle /\ WindowIdle /\ TextIdle /\ DistanceIdle /\ StreamableIdle
    /\ MerkleIdle

SpecMeta == InitMeta /\ [][MetaNext]_vars

InitFold ==
    /\ FoldInit /\ CodecIdle /\ StreamIdle /\ ChunksIdle /\ LeavesIdle
    /\ WindowIdle /\ TextIdle /\ DistanceIdle /\ StreamableIdle /\ MerkleIdle
    /\ MetaIdle

SpecFold == InitFold /\ [][FoldNext]_vars

-----------------------------------------------------------------------------
(* Claims about the codec.                                                  *)

\* C1: for every digest d of 1, 8 or 9 bytes, decode(encode(d)) returns
\* exactly d.
C1_DecodeEncode ==
    (cdMode = "digest" /\ cdPc = "out") => cdOut = Return(cdIn)

\* A 9-byte record with a non-zero header and body made the round trip
\* through a 13-character code.
C1_Witness ==
    /\ cdMode = "digest" /\ cdPc = "out"
    /\ Len(cdIn) = 9 /\ cdIn[1] = 16 /\ cdIn[2] = 255 /\ cdIn[9] = 58
    /\ ~Raised(cdMid) /\ Len(cdMid.val) = 13
    /\ cdOut = Return(cdIn)

\* The digit values of the code of the largest digest of n bytes.
MaxCodeValues(nbytes) ==
    LET c == EncodePart([i \in 1..nbytes |-> 255]).val
    IN  [i \in 1..Len(c) |-> C2VTABLE(c[i])]

\* a <= b for two equally long digit strings, most significant digit first
LexLeq(a, b) ==
    \/ a = b
    \/ \E i \in 1..Len(a) : a[i] < b[i] /\ \A j \in 1..(i - 1) : a[j] = b[j]

PartInRange(part) ==
    LexLeq([i \in 1..Len(part) |-> C2VTABLE(part[i])],
           MaxCodeValues(IF Len(part) = 2 THEN 1 ELSE 8))

\* The base-58 value of each part of the code fits the part's bytes.
CodeInRange(code) ==
    IF Len(code) = 13
    THEN PartInRange(Take(code, 2)) /\ PartInRange(Drop(code, 2))
    ELSE PartInRange(code)

IsLegalCode(code) ==
    /\ Len(code) \in {2, 11, 13}
    /\ \A i \in 1..Len(code) : \E k \in 1..58 : SYMBOLS[k] = code[i]

\* C2 (as stated): for every code c of 2, 11 or 13 alphabet characters,
\* encode(decode(c)) returns exactly c.
C2_EncodeDecode_AsStated ==
    (cdMode = "code" /\ cdPc = "out" /\ IsLegalCode(cdIn)) => cdOut = Return(cdIn)

\* C2 (amended): for every code c of 2, 11 or 13 alphabet characters whose
\* parts each denote a value that fits the part's bytes (the 2-character part
\* at most encode(0xFF), the 11-character part at most encode(0xFF * 8)),
\* encode(decode(c)) returns exactly c.
C2_EncodeDecode ==
    (cdMode = "code" /\ cdPc = "out" /\ IsLegalCode(cdIn) /\ CodeInRange(cdIn))
        => cdOut = Return(cdIn)

\* A 13-character code whose parts are both in range, neither the smallest
\* code, made the round trip.
C2_Witness ==
    /\ cdMode = "code" /\ cdPc = "out"
    /\ Len(cdIn) = 13 /\ cdIn[1] = 52 /\ cdIn[3] = 75
    /\ IsLegalCode(cdIn) /\ CodeInRange(cdIn)
    /\ ~Raised(cdMid) /\ Len(cdMid.val) = 9
    /\ cdOut = Return(cdIn)

-----------------------------------------------------------------------------
(* Claims about the chunker and the leaf loop.                              *)

\* chunks[lo] + ... + chunks[hi]
RECURSIVE Flatten(_, _, _)
Flatten(chunks, lo, hi) ==
    IF lo > hi THEN <<>>
    ELSE IF lo = hi THEN chunks[lo]
    ELSE LET mid == (lo + hi) \div 2
         IN  Flatten(chunks, lo, mid) \o Flatten(chunks, mid + 1, hi)

\* len(chunks[lo]) + ... + len(chunks[hi])
RECURSIVE SumLen(_, _, _)
SumLen(chunks, lo, hi) ==
    IF lo > hi THEN 0
    ELSE IF lo = hi THEN Len(chunks[lo])
    ELSE LET mid == (lo + hi) \div 2
         IN  SumLen(chunks, lo, mid) + SumLen(chunks, mid + 1, hi)

\* C3: for every finite byte input, the concatenation in emission order of
\* all chunks yielded by data_chunks equals the input byte sequence, across
\* both stages.
C3_ChunksConcatenate ==
    ckPc = "done" => Flatten(ckChunks, 1, Len(ckChunks)) = InputBytes(smData)

\* data_chunks finished a stream that took it through the small stage (a
\* chunk cut at the small maximum) and the large stage (a chunk cut at the
\* large maximum and a last short one), and the chunks add up to the input.
C3_Witness ==
    /\ ckPc = "done" /\ Len(ckChunks) = 102
    /\ Len(ckChunks[100]) = 640 /\ Len(ckChunks[101]) = 65536
    /\ Len(ckChunks[102]) = StreamLen(smData) - SumLen(ckChunks, 1, 101)
    /\ Flatten(ckChunks, 1, Len(ckChunks)) = InputBytes(smData)

\* C4 (as stated): every chunk yielded by data_chunks has a length in
\* [min(len(remaining), min_size), max_size], remaining being the rest of
\* the input not yet yielded and (min_size, max_size) = (20, 640) for the
\* chunks 0..99 and (2048, 65536) from chunk 100 on; no chunk is empty.
C4_ChunkLengthBounds ==
    ckChunks # <<>> =>
        LET k         == Len(ckChunks)
            length    == Len(ckChunks[k])
            remaining == StreamLen(smData) - SumLen(ckChunks, 1, k - 1)
            min_size  == IF k - 1 < 100 THEN 20 ELSE 2048
            max_size  == IF k - 1 < 100 THEN 640 ELSE 65536
        IN  /\ Min2(remaining, min_size) <= length
            /\ length <= max_size
            /\ length >= 1

\* C5 (as stated): the chunks of data_chunks and the leaf slices of
\* instance_id depend only on the bytes of the stream: a provider whose
\* read(n) returns fewer than n bytes before the end yields the same
\* sequences as one that returns what is asked.
C5_ProviderIndependent ==
    /\ (smRun = 2 /\ ckPc = "done") => ckChunks = smRef
    /\ (smRun = 2 /\ iiPc = "done") => iiLeaves = smRef

-----------------------------------------------------------------------------
(* Claims about the hashes.                                                 *)

\* C6: similarity_hash and minimum_hash are order-insensitive: the run on a
\* permutation of a non-empty list of equal-length digests (of a finite
\* sequence of 32-bit features) ends without an error and returns what the
\* run on the list as given returned.
C6_OrderInsensitive ==
    /\ mhRun = 2 /\ mhPc = "done" => mhValues = mhRef.result
    /\ shRun = 2 => shPc \notin {"IndexError", "AssertionError"}
    /\ shRun = 2 /\ shPc = "done" => shOut = shRef.result

\* Both hashes have run on a sequence and again on a different ordering of
\* it, and returned a result the input decided.
C6_Witness ==
    /\ mhRun = 2 /\ mhPc = "done" /\ mhRef.moved
    /\ mhValues = mhRef.result /\ mhValues[1] # max_hash
    /\ shRun = 2 /\ shPc = "done" /\ shRef.moved
    /\ shOut = shRef.result /\ shOut = <<175>>

\* v mod 256^k
ModPow256(v, k) == [i \in 1..k |-> BnDigit(v, i)]

\* (((a[x]*h + b[x]) mod 2^64) mod (2^61 - 1)) mod 2^32
SlotHash(x, h) ==
    ModPow256(
        BnMod(ModPow256(BnAdd(BnMulFeature(MINHASH_PERMUTATIONS[1][x], h),
                              MINHASH_PERMUTATIONS[2][x]), 8),
              mersenne_prime),
        4)

\* the least of 2^32 - 1 and the slot hashes of the features in F
SlotLeast(x, F) ==
    LET cand == {max_hash} \cup {SlotHash(x, h) : h \in F}
    IN  CHOOSE m \in cand : \A o \in cand : ~BnLess(o, m)

IsUint32(v) == Len(v) = 4 /\ \A i \in 1..4 : v[i] \in 0..255

\* C7: minimum_hash returns exactly 128 integers in [0, 2^32 - 1], slot x
\* being the least of 2^32 - 1 and (((a[x]*h + b[x]) mod 2^64) mod
\* (2^61 - 1)) mod 2^32 over the features h of the stream; every slot is
\* 2^32 - 1 for the empty stream.
C7_MinhashSlots ==
    mhPc = "done" =>
        /\ Len(mhValues) = 128
        /\ \A x \in 1..128 :
              /\ IsUint32(mhValues[x])
              /\ mhValues[x] = SlotLeast(x, {mhFeatures[i] : i \in 1..Len(mhFeatures)})
        /\ mhFeatures = <<>> => \A x \in 1..128 : mhValues[x] = max_hash

\* minimum_hash returned on three features; some slot holds a hash that is
\* not the last feature's, and some slot a hash of the last feature.
C7_Witness ==
    /\ mhPc = "done" /\ Len(mhFeatures) = 3
    /\ \E x \in 1..128 : mhValues[x] # Permuted(x, mhFeatures[3])
    /\ \E x \in 1..128 :
          mhValues[x] = Permuted(x, mhFeatures[3]) /\ mhValues[x] # max_hash

-----------------------------------------------------------------------------
(* Claims about the sliding window.                                         *)

\* C8: for a sequence X of length n and a width w >= 2, sliding_window
\* returns, in index order, exactly the slices X[i:i+w] for i = 0..n-w when
\* n >= w (n-w+1 slices of length w) and exactly the one slice X when n < w;
\* the generator of utils.py yields the same slices as the list of iscc.py.
C8_SlidingWindow ==
    swPc = "done" =>
        LET n == Len(swSeq)
            w == swWidth
        IN  /\ n >= w =>
                /\ Len(swList) = n - w + 1
                /\ \A i \in 0..(n - w) :
                      /\ swList[i + 1] = SubSeq(swSeq, i + 1, i + w)
                      /\ Len(swList[i + 1]) = w
            /\ n < w => swList = <<swSeq>>
            /\ swSlices = swList

\* Both versions have produced the three 3-grams of a 5-item sequence.
C8_Witness ==
    /\ swPc = "done" /\ Len(swSeq) = 5 /\ swWidth = 3
    /\ swSeq[1] # swSeq[2] /\ swSeq[4] # swSeq[5]
    /\ Len(swList) = 3 /\ swSlices = swList
    /\ swList[3] = <<swSeq[3], swSeq[4], swSeq[5]>>

-----------------------------------------------------------------------------
(* Claims about the text functions.                                         *)

Utf8Len(text) == Len(Utf8Range(text, 1, Len(text)))

\* C9: trim returns the longest code-point prefix of the text whose UTF-8
\* encoding is at most the cap: the result is a prefix of the input, its
\* UTF-8 length is at most the cap, one more code point of the input would
\* exceed the cap, and no code point is split (128 two-byte characters trim
\* to 64 characters / 128 bytes, 128 three-byte characters to 42 / 126).
C9_TrimLongestPrefix ==
    txPc = "trimmed" =>
        LET k == Len(txOut)
        IN  /\ k <= Len(txIn) /\ txOut = SubSeq(txIn, 1, k)
            /\ Utf8Len(txOut) <= INPUT_TRIM
            /\ k < Len(txIn) => Utf8Len(SubSeq(txIn, 1, k + 1)) > INPUT_TRIM
            /\ Utf8Range(txOut, 1, k)
                 = SubSeq(Utf8Range(txIn, 1, Len(txIn)), 1, Utf8Len(txOut))
            /\ txIn = Repeat(252, 128) => k = 64 /\ Utf8Len(txOut) = 128
            /\ txIn = Repeat(39529, 128) => k = 42 /\ Utf8Len(txOut) = 126

\* trim returned 42 of 128 three-byte characters: 126 bytes, and a 43rd
\* character would make 129.
C9_Witness ==
    /\ txPc = "trimmed" /\ txIn = Repeat(39529, 128)
    /\ Len(txOut) = 42 /\ Utf8Len(txOut) = 126
    /\ Utf8Len(SubSeq(txIn, 1, 43)) = 129

\* C10: normalize_text is idempotent: normalize_text(normalize_text(X))
\* equals normalize_text(X) for every text X.
C10_NormalizeIdempotent ==
    txPc = "renormalized" => txAgain = txOut

\* normalize_text ran on U+00C4, U+2028, U+1100, returned "a", space,
\* U+1100, and returned the same again on that result.
C10_Witness ==
    /\ txPc = "renormalized" /\ txIn = <<196, 8232, 4352>>
    /\ txOut = <<97, 32, 4352>> /\ txAgain = txOut

IsWordChar(c) == Category(c) \in {"L", "N", "S"}

Count(s, c) == Cardinality({i \in 1..Len(s) : s[i] = c})

\* C11 (as stated): a run of whitespace between two words, control
\* whitespace (newline, tab, carriage return) and separators (no-break
\* space) alike, becomes one U+0020 and never vanishes, and whitespace at
\* both ends is stripped: "Hello\nWorld" gives "hello world", " " gives "".
C11_WhitespaceIsBoundary ==
    txPc = "normalized" =>
        /\ txOut # <<>> => txOut[1] # 32 /\ txOut[Len(txOut)] # 32
        /\ (Len(txIn) = 3 /\ IsWordChar(txIn[1]) /\ IsSpace(txIn[2])
                /\ IsWordChar(txIn[3]))
              => Count(txOut, 32) = 1
        /\ (\A i \in 1..Len(txIn) : IsSpace(txIn[i])) => txOut = <<>>
        /\ txIn = TextHelloNewline
              => txOut = <<104, 101, 108, 108, 111, 32, 119, 111, 114, 108, 100>>

\* C12 (as stated): '?' and '!' stay in the normalized text and the dash
\* U+2013 is dropped: "  Hello  World ? " gives "hello world ?" and a text
\* ending in "thing!" gives one ending in "thing!".
C12_QuestionAndBangKept ==
    txPc = "normalized" =>
        /\ 8211 \notin {txOut[i] : i \in 1..Len(txOut)}
        /\ Count(txOut, 63) = Count(txIn, 63)
        /\ txIn = TextHelloQuestion
              => txOut = <<104, 101, 108, 108, 111, 32, 119, 111, 114, 108, 100,
                           32, 63>>
        /\ txIn = TextTrickyThing
              => SubSeq(txOut, Len(txOut) - 5, Len(txOut))
                   = <<116, 104, 105, 110, 103, 33>>

-----------------------------------------------------------------------------
(* Claims about distance.                                                   *)

\* the header of a code: the first decoded byte of a base-58 code, the four
\* header fields of a base-32 code
HeaderOf(fn, code) ==
    IF fn = "iscc"
    THEN Take(decode(code).val, 1)
    ELSE HeaderValues(read_header(decode_base32(code)))

\* C13 (as stated): the distance of two code strings whose headers differ in
\* main type, sub type, version or length fails with an error and never
\* returns a number, unless the mixed flag is set.
C13_HeaderMismatchFails ==
    (diPc = "done" /\ ~diMixed /\ HeaderOf(diFn, diA) # HeaderOf(diFn, diB))
        => Raised(diOut)

\* the number of bit positions in which the first n bytes of a and b differ
PrefixHamming(a, b, n) ==
    Cardinality({k \in 0..(8 * n - 1) : DataBitAt(a, k) # DataBitAt(b, k)})

\* C14 (as stated): with mixed set, the distance of two codes of the same
\* main type and of different digest lengths succeeds and is the Hamming
\* distance of the shorter digest and the equally long prefix of the longer
\* one; codes of different main types still fail.
C14_MixedPrefixDistance_AsStated ==
    (diPc = "done" /\ diFn = "metrics" /\ diMixed) =>
        LET a == read_header(decode_base32(diA))
            b == read_header(decode_base32(diB))
        IN  /\ a[1] # b[1] => Raised(diOut)
            /\ (a[1] = b[1] /\ a[4] # b[4]) =>
                  diOut = Return(PrefixHamming(a[5], b[5], Min2(a[4], b[4]) \div 8))

\* C14: with mixed set, the distance of two codes of the same main type and
\* the same version succeeds, whatever their sub types and digest lengths,
\* and is the Hamming distance of the shorter digest and the equally long
\* prefix of the longer one; codes of different main types or of different
\* versions fail.
C14_MixedPrefixDistance ==
    (diPc = "done" /\ diFn = "metrics" /\ diMixed) =>
        LET a == read_header(decode_base32(diA))
            b == read_header(decode_base32(diB))
        IN  /\ (a[1] # b[1] \/ a[3] # b[3]) => Raised(diOut)
            /\ (a[1] = b[1] /\ a[3] = b[3]) =>
                  diOut = Return(PrefixHamming(a[5], b[5], Min2(a[4], b[4]) \div 8))

\* A code of 64 bits was compared with a code of 128 bits of the same main
\* type and version and another sub type, and the digests differ.
C14_Witness ==
    /\ diPc = "done" /\ diFn = "metrics" /\ diMixed
    /\ LET a == read_header(decode_base32(diA))
           b == read_header(decode_base32(diB))
       IN  /\ a[1] = b[1] /\ a[3] = b[3] /\ a[2] # b[2]
           /\ a[4] = 64 /\ b[4] = 128
    /\ ~Raised(diOut) /\ diOut.val > 0

-----------------------------------------------------------------------------
(* Claims about decode's input checks.                                      *)

\* C15 (as stated): decode fails, returning no bytes, for every code string
\* whose length is not 2, 11 or 13 and for every code string of legal length
\* that holds a character outside the 58-character alphabet.
C15_DecodeRejectsIllegal ==
    (cdMode = "code" /\ cdPc # "in" /\ ~IsLegalCode(cdIn))
        => Raised(cdMid) /\ cdMid.val = <<>>

-----------------------------------------------------------------------------
(* Claims about Streamable.                                                 *)

\* C16 (as stated): a stream handle that Streamable itself opened from a file
\* path is closed once the with-block is left, by a return or by an
\* exception, whatever the close option; it is never left open after exit.
C16_OpenedHandleClosed ==
    (stPc = "left" /\ stKind = "path" /\ stOrigin = "open") => ~stOpen

-----------------------------------------------------------------------------
(* Claims about the bits of similarity_hash.                                *)

\* how many of the digests have bit i (0 the least significant) set
BitCount(digests, i) ==
    Cardinality({d \in 1..Len(digests) : DigestBit(digests[d], i) = 1})

\* C17: for a non-empty list of N digests of equal length L, similarity_hash
\* returns L bytes whose bit i is 1 exactly when at least N/2 of the digests
\* have bit i set; a count of exactly half gives 1.
C17_MajorityBits ==
    shPc = "done" =>
        /\ Len(shOut) = Len(shDigests[1])
        /\ \A i \in 0..(8 * Len(shOut) - 1) :
              DigestBit(shOut, i) = 1
                  <=> 2 * BitCount(shDigests, i) >= Len(shDigests)

\* Two different digests of two bytes were hashed: a bit set in exactly one
\* of them (half of them) is set in the result, a bit set in neither is not.
C17_Witness ==
    /\ shPc = "done" /\ Len(shDigests) = 2 /\ Len(shOut) = 2
    /\ shDigests[1] = <<1, 128>> /\ shDigests[2] = <<255, 0>>
    /\ \E i \in 0..15 : BitCount(shDigests, i) = 1 /\ DigestBit(shOut, i) = 1
    /\ \E i \in 0..15 : BitCount(shDigests, i) = 0 /\ DigestBit(shOut, i) = 0

-----------------------------------------------------------------------------
(* Claims about the Merkle build of instance_id.                            *)

\* C18 (as stated): for every finite input, the empty one included, the
\* build ends with a single root: a level of k hashes is followed by a level
\* of ceil(k / 2) hashes, the recursion stops when one hash is left, and
\* instance_id returns a code.
C18_SingleRoot ==
    /\ thPc # "RecursionError"
    /\ \A j \in 1..(Len(thLevels) - 1) : thLevels[j + 1] = (thLevels[j] + 1) \div 2
    /\ thPc \in {"root", "returned"} => thLevels[Len(thLevels)] = 1

-----------------------------------------------------------------------------
(* Claims about meta_id.                                                    *)

\* Opts.meta_trim_title
meta_trim_title == 128

\* Opts.meta_trim_extra
meta_trim_extra == 4096

\* C19 (as stated): meta_id trims title and extra to different caps: the
\* title it returns has at most 128 UTF-8 bytes, the extra it returns at
\* most 4096, so an extra of 129 to 4096 bytes comes back untrimmed.
C19_SeparateCaps ==
    miPc = "returned" =>
        /\ Utf8Len(miOut.title) <= meta_trim_title
        /\ Utf8Len(miOut.extra) <= meta_trim_extra
        /\ (Utf8Len(NFKC(miExtraIn)) > meta_trim_title
              /\ Utf8Len(NFKC(miExtraIn)) <= meta_trim_extra)
             => miOut.extra = NFKC(miExtraIn)

-----------------------------------------------------------------------------
(* Claims about the fold of content_id_text and data_id.                    *)

\* x | y of two bytes
ByteOr(x, y) == x + y - ByteAnd(x, y)

\* C20: similarity_hash((a, b)) of two 8-byte digests is a | b; so the
\* 64-bit digest of content_id_text and data_id is the OR of the two halves
\* of the string of least significant bits of the 128 minimum hashes (bit i
\* of the digest is set exactly when the hash at index 63 - i or the hash at
\* index 127 - i is odd), and for an empty feature stream it is all ones.
C20_FoldIsOr ==
    /\ (shPc = "done" /\ Len(shDigests) = 2 /\ Len(shDigests[1]) = 8
          /\ Len(shDigests[2]) = 8)
         => shOut = [k \in 1..8 |-> ByteOr(shDigests[1][k], shDigests[2][k])]
    /\ (shPc = "done" /\ mhPc = "done")
         => \A i \in 0..63 :
               DigestBit(shOut, i) = 1
                   <=> (mhValues[64 - i][1] % 2 = 1 \/ mhValues[128 - i][1] % 2 = 1)
    /\ (shPc = "done" /\ mhPc = "done" /\ mhFeatures = <<>>)
         => shOut = Repeat(255, 8)

\* Two features were hashed and folded: the two halves differ, and the
\* digest has a bit set from the first half only, a bit set from the second
\* half only, and a bit that is clear.
C20_Witness ==
    /\ shPc = "done" /\ mhPc = "done" /\ Len(mhFeatures) = 2
    /\ shDigests[1] # shDigests[2]
    /\ \E i \in 0..63 : /\ DigestBit(shDigests[1], i) = 1
                        /\ DigestBit(shDigests[2], i) = 0
                        /\ DigestBit(shOut, i) = 1
    /\ \E i \in 0..63 : /\ DigestBit(shDigests[1], i) = 0
                        /\ DigestBit(shDigests[2], i) = 1
                        /\ DigestBit(shOut, i) = 1
    /\ \E i \in 0..63 : DigestBit(shOut, i) = 0

=============================================================================
